---------------------------- MODULE Spec2Model ----------------------------
(***************************************************************************)
(* Snack counter: the JSON-backed counter service of edtadros/snack-counter.*)
(*                                                                         *)
(* Two server programs live in the repository and both are modelled:       *)
(*   server = "single"  the single-document server (src/unnamed/part_000), *)
(*                      one counter-data.json for everybody;               *)
(*   server = "rooms"   the multi-room server (src/server.js), one document*)
(*                      per access code.                                   *)
(* Strings are sequences of tokens (characters, or whole literal pieces    *)
(* such as ".json"); a file system is a function from paths to contents.   *)
(***************************************************************************)
EXTENDS Integers, Sequences, FiniteSets

VARIABLES
    server,     \* which program runs: "single" or "rooms"
    clock,      \* Date.now(), in ms
    fs,         \* the files on disk: path -> parsed content
    res,        \* the response of the last request handled
    rejected,   \* history: number of increment requests that were not answered 200
    lastCall,   \* history: the clock reading of the previous increment request
                \*   (0 once spaced is false)
    spaced,     \* history: every increment request came >= 20 s after the previous one
    hist,       \* history: the log entries created so far, newest first
    deletes,    \* history: number of successful DELETE /api/log/:id requests
    lag,        \* history: ms the clock moved in 1 ms steps and inside handlers
    imports     \* history: number of POST /api/import-data requests handled

vars == <<server, clock, fs, res, rejected, lastCall, spaced, hist, deletes, lag,
          imports>>

---------------------------------------------------------------------------
(* Bounds of the model                                                     *)

\* The clock reading when the server starts (Date.now() is far beyond the window).
StartTime == 100000
\* Total ms the clock may move in 1 ms steps and between the clock readings
\* of one handler.
MaxLag == 1
\* Number of log entries ever created.
MaxMade == 21
\* Number of successful deletions.
MaxDeletes == 1
\* Number of increment requests that create no entry.
MaxRejected == 1
\* Number of log entries created in a run that holds an irregular step (a
\* 1 ms move of the clock, a deletion, a rejected increment, an import).
MaxShort == 4
\* Number of imports.
MaxImports == 1

---------------------------------------------------------------------------
(* Program constants                                                       *)

RATE_LIMIT_MS == 20000
LOG_LIMIT == 20

---------------------------------------------------------------------------
(* JavaScript values and strings                                           *)

Digits == <<"0", "1", "2", "3", "4", "5", "6", "7", "8", "9">>

DigitVal(c) == (CHOOSE i \in 1..10 : Digits[i] = c) - 1

IsDigit(c) == \E i \in 1..10 : Digits[i] = c

\* Number.prototype.toString() of a non-negative integer.
RECURSIVE toString(_)
toString(n) ==
    IF n < 10 THEN <<Digits[n + 1]>>
    ELSE toString(n \div 10) \o <<Digits[(n % 10) + 1]>>

\* Mutant: Math.floor in place of Math.ceil.
CeilDiv1000_Floor(x) == x \div 1000

\* Math.ceil(x / 1000) for an integer x (x may be negative).
CeilDiv1000(x) == -((-x) \div 1000)


\* The JavaScript values the documents hold, each tagged with its kind.
Undefined == [t |-> "undefined"]
Null == [t |-> "null"]
NaN == [t |-> "NaN"]
Bool(b) == [t |-> "boolean", v |-> b]
Num(n) == [t |-> "number", v |-> n]
Str(s) == [t |-> "string", v |-> s]
Arr(a) == [t |-> "array", v |-> a]
Obj(m) == [t |-> "object", v |-> m]

\* typeof x
typeOf(x) ==
    CASE x.t \in {"number", "NaN"} -> "number"
      [] x.t \in {"null", "array", "object"} -> "object"
      [] OTHER -> x.t

\* !x
Falsy(x) ==
    \/ x.t \in {"undefined", "null", "NaN"}
    \/ x.t = "number" /\ x.v = 0
    \/ x.t = "string" /\ x.v = <<>>
    \/ x.t = "boolean" /\ ~x.v

\* Array.isArray(x)
IsArray(x) == x.t = "array"

\* o.k for an object o (undefined when o has no such property).
Get(o, k) == IF o.t = "object" /\ k \in DOMAIN o.v THEN o.v[k] ELSE Undefined

\* o.k = x
Set(o, k, x) ==
    Obj([q \in DOMAIN o.v \cup {k} |-> IF q = k THEN x ELSE o.v[q]])

RECURSIVE ParseDigits(_, _)
ParseDigits(s, acc) ==
    IF s = <<>> \/ ~IsDigit(Head(s)) THEN acc
    ELSE ParseDigits(Tail(s), 10 * acc + DigitVal(Head(s)))

\* parseInt(s) of a string without sign or blanks: the leading digits, NaN if none.
parseInt(s) ==
    IF s = <<>> \/ ~IsDigit(Head(s)) THEN NaN ELSE Num(ParseDigits(s, 0))

AllDigits(s) == \A i \in 1..Len(s) : IsDigit(s[i])

\* Number(x), the conversion the arithmetic operators apply.
ToNumber(x) ==
    CASE x.t = "number" -> x
      [] x.t = "null" -> Num(0)
      [] x.t = "string" ->
            IF x.v = <<>> THEN Num(0)
            ELSE IF AllDigits(x.v) THEN Num(ParseDigits(x.v, 0)) ELSE NaN
      [] x.t = "array" ->
            IF x.v = <<>> THEN Num(0) ELSE NaN
      [] OTHER -> NaN

\* a - b
Minus(a, b) ==
    LET x == ToNumber(a)
        y == ToNumber(b)
    IN  IF x.t = "NaN" \/ y.t = "NaN" THEN NaN ELSE Num(x.v - y.v)

\* a < b on numbers: false when either side is NaN.
LessThan(a, b) == a.t = "number" /\ b.t = "number" /\ a.v < b.v

\* a >= b on numbers: false when either side is NaN.
AtLeast(a, b) == a.t = "number" /\ b.t = "number" /\ a.v >= b.v

\* Mutant: the count is not incremented.
PlusOne_Forgotten(x) == x

\* x += 1 (a string operand concatenates).
PlusOne(x) ==
    CASE x.t = "number" -> Num(x.v + 1)
      [] x.t = "null" -> Num(1)
      [] x.t = "string" -> Str(x.v \o <<"1">>)
      [] OTHER -> NaN

\* Mutant: the milliseconds are not divided.
CeilSeconds_Millis(x) == x

\* Math.ceil(x / 1000)
CeilSeconds(x) == IF x.t = "number" THEN Num(CeilDiv1000(x.v)) ELSE NaN

\* JSON.stringify(data, null, 2), named by the value the text parses back to:
\* undefined properties are left out and NaN is written as null; an array
\* keeps its elements and loses the properties set on it.
ElemsKey == "[]"

JSONstringify(data) ==
    IF data.t # "object" THEN (IF data.t = "NaN" THEN Null ELSE data)
    ELSE IF ElemsKey \in DOMAIN data.v THEN data.v[ElemsKey]
    ELSE Obj([q \in {k \in DOMAIN data.v : data.v[k].t # "undefined"} |->
                 IF data.v[q].t = "NaN" THEN Null ELSE data.v[q]])

\* The content of a file that is no JSON text.
Corrupt == [t |-> "corrupt"]

\* JSON.parse(text): the value, or a SyntaxError. A parsed top-level array is
\* an object whose elements sit under ElemsKey, so that properties can be set on it.
ParseThrows(content) == content.t = "corrupt"

JSONparse(content) ==
    IF content.t = "array" THEN Obj([q \in {ElemsKey} |-> content]) ELSE content

---------------------------------------------------------------------------
(* The file system (fs.existsSync, readFileSync, writeFileSync, copyFileSync,*)
(* renameSync, unlinkSync)                                                 *)

existsSync(f, p) == p \in DOMAIN f

WriteTo(f, p, c) == [q \in DOMAIN f \cup {p} |-> IF q = p THEN c ELSE f[q]]

\* Mutant: the file is not removed.
unlinkSync_Kept(f, p) == f

unlinkSync(f, p) == [q \in DOMAIN f \ {p} |-> f[q]]

\* Mutant: no copy is made.
copyFileSync_None(f, from, to) == f

copyFileSync(f, from, to) == WriteTo(f, to, f[from])

renameSync(f, from, to) == unlinkSync(WriteTo(f, to, f[from]), from)

NoFiles == [q \in {} |-> Null]

\* What a call hands back: whether it threw, the files afterwards, its value.
Returned(f, x) == [threw |-> FALSE, fs |-> f, val |-> x]
Thrown(f) == [threw |-> TRUE, fs |-> f, val |-> Undefined]

---------------------------------------------------------------------------
(* The state store of both servers                                         *)

\* The steps of a write at which the file system may fail; "none" is a disk
\* that works.
Faults == {"none", "copy", "write", "rename"}

\* Mutant: the state is validated after the backup copy.
WriteFile_LateCheck(f, dataFile, data, fault) ==
    LET tempFile == dataFile \o <<".tmp">>
        backupFile == dataFile \o <<".backup">>
        Caught(g) ==
            Thrown(IF existsSync(g, tempFile) THEN unlinkSync(g, tempFile) ELSE g)
    IN  IF existsSync(f, dataFile) /\ fault = "copy" THEN Caught(f)
        ELSE
          LET f1 == IF existsSync(f, dataFile)
                    THEN copyFileSync(f, dataFile, backupFile) ELSE f
          IN  IF Falsy(data) \/ typeOf(data) # "object" THEN Caught(f1)
              ELSE IF fault = "write" THEN Caught(f1)
              ELSE
                LET f2 == WriteTo(f1, tempFile, JSONstringify(data))
                IN  IF fault = "rename" THEN Caught(f2)
                    ELSE
                      LET f3 == renameSync(f2, tempFile, dataFile)
                      IN  IF Get(data, "log").t \in {"undefined", "null"}
                          THEN Caught(f3)
                          ELSE Returned(f3, Undefined)

\* The body of writeData, the same in both servers: validate, back up the
\* current document, write the temporary file, rename it over the document,
\* log the sizes; on any failure remove the temporary file and throw again.
WriteFile(f, dataFile, data, fault) ==
    LET tempFile == dataFile \o <<".tmp">>
        backupFile == dataFile \o <<".backup">>
        \* the catch block: the temporary file is removed if it exists
        Caught(g) ==
            Thrown(IF existsSync(g, tempFile) THEN unlinkSync(g, tempFile) ELSE g)
    IN  IF Falsy(data) \/ typeOf(data) # "object" THEN Caught(f)
        ELSE IF existsSync(f, dataFile) /\ fault = "copy" THEN Caught(f)
        ELSE
          LET f1 == IF existsSync(f, dataFile)
                    THEN copyFileSync(f, dataFile, backupFile) ELSE f
          IN  IF fault = "write" THEN Caught(f1)
              ELSE
                LET f2 == WriteTo(f1, tempFile, JSONstringify(data))
                IN  IF fault = "rename" THEN Caught(f2)
                    ELSE
                      LET f3 == renameSync(f2, tempFile, dataFile)
                      IN  \* `${data.count} snacks, ${data.log.length} log entries`
                          IF Get(data, "log").t \in {"undefined", "null"}
                          THEN Caught(f3)
                          ELSE Returned(f3, Undefined)

\* Mutant: the document is read in place of its backup.
RestoreFrom_Primary(f, dataFile) ==
    IF existsSync(f, dataFile) /\ ~ParseThrows(f[dataFile])
    THEN JSONparse(f[dataFile]) ELSE Null

\* The body of tryRestoreFromBackup: the parsed backup, or null.
RestoreFrom(f, dataFile) ==
    LET backupFile == dataFile \o <<".backup">>
    IN  IF existsSync(f, backupFile) /\ ~ParseThrows(f[backupFile])
        THEN JSONparse(f[backupFile]) ELSE Null


\* ---- the single-document server (part_000) ----

DATA_FILE == <<"counter-data.json">>

\* The document a fresh counter starts from.
initialDataSingle ==
    Obj([k \in {"count", "log", "lastIncrementTime"} |->
            IF k = "log" THEN Arr(<<>>) ELSE Num(0)])

writeDataSingle(f, data, fault) == WriteFile(f, DATA_FILE, data, fault)

initializeDataSingle(f, fault) ==
    LET w == writeDataSingle(f, initialDataSingle, fault)
    IN  IF w.threw THEN w ELSE Returned(w.fs, initialDataSingle)

tryRestoreFromBackupSingle(f) == RestoreFrom(f, DATA_FILE)

\* Mutant: the test on count is inverted, a count that is a number is reset.
EnsureFields_Inverted(parsed) ==
    LET p1 == IF typeOf(Get(parsed, "count")) = "number"
              THEN Set(parsed, "count", Num(0)) ELSE parsed
        p2 == IF ~IsArray(Get(p1, "log"))
              THEN Set(p1, "log", Arr(<<>>)) ELSE p1
    IN  IF typeOf(Get(p2, "lastIncrementTime")) # "number"
        THEN Set(p2, "lastIncrementTime", Num(0)) ELSE p2

\* Mutant: the fields are not ensured.
EnsureFields_Skipped(parsed) == parsed

\* Mutant: a document with a field of the wrong type is replaced as a whole.
EnsureFields_Whole(parsed) ==
    IF \/ typeOf(Get(parsed, "count")) # "number"
       \/ ~IsArray(Get(parsed, "log"))
       \/ typeOf(Get(parsed, "lastIncrementTime")) # "number"
    THEN initialDataSingle ELSE parsed

\* "Ensure required fields exist": count, log and lastIncrementTime of the
\* wrong type are replaced by their defaults.
EnsureFields(parsed) ==
    LET p1 == IF typeOf(Get(parsed, "count")) # "number"
              THEN Set(parsed, "count", Num(0)) ELSE parsed
        p2 == IF ~IsArray(Get(p1, "log"))
              THEN Set(p1, "log", Arr(<<>>)) ELSE p1
    IN  IF typeOf(Get(p2, "lastIncrementTime")) # "number"
        THEN Set(p2, "lastIncrementTime", Num(0)) ELSE p2

\* Mutant: a stale read; the backup, the state before the last write, is read
\* when there is one.
readDataSingle_Stale(f, fault) ==
    LET backupData == tryRestoreFromBackupSingle(f)
        Caught(g) ==
            IF ~Falsy(backupData) THEN Returned(g, backupData)
            ELSE initializeDataSingle(g, fault)
        Init0(g) ==
            LET i == initializeDataSingle(g, fault)
            IN  IF i.threw THEN Caught(i.fs) ELSE i
    IN  IF ~existsSync(f, DATA_FILE) THEN Init0(f)
        ELSE IF fault = "read" \/ ParseThrows(f[DATA_FILE]) THEN Caught(f)
        ELSE
          LET parsed == JSONparse(f[DATA_FILE])
          IN  IF Falsy(parsed) \/ typeOf(parsed) # "object" THEN Init0(f)
              ELSE IF backupData.t = "object"
              THEN Returned(f, EnsureFields(backupData))
              ELSE Returned(f, EnsureFields(parsed))

\* Mutant: the document is written back with its fields ensured.
readDataSingle_WritesBack(f, fault) ==
    LET Caught(g) ==
            LET backupData == tryRestoreFromBackupSingle(g)
            IN  IF ~Falsy(backupData) THEN Returned(g, backupData)
                ELSE initializeDataSingle(g, fault)
        Init0(g) ==
            LET i == initializeDataSingle(g, fault)
            IN  IF i.threw THEN Caught(i.fs) ELSE i
    IN  IF ~existsSync(f, DATA_FILE) THEN Init0(f)
        ELSE IF fault = "read" \/ ParseThrows(f[DATA_FILE]) THEN Caught(f)
        ELSE
          LET parsed == JSONparse(f[DATA_FILE])
          IN  IF Falsy(parsed) \/ typeOf(parsed) # "object" THEN Init0(f)
              ELSE Returned(writeDataSingle(f, EnsureFields(parsed), fault).fs,
                            EnsureFields(parsed))

\* readData: the document with its fields ensured, a fresh one when there is
\* none; a read or parse failure falls back to the backup and then to a fresh
\* document. The fault "read" is a failing readFileSync.
readDataSingle(f, fault) ==
    LET \* the catch block: the backup if it parses to something, else a fresh document
        Caught(g) ==
            LET backupData == tryRestoreFromBackupSingle(g)
            IN  IF ~Falsy(backupData) THEN Returned(g, backupData)
                ELSE initializeDataSingle(g, fault)
        Init0(g) ==
            LET i == initializeDataSingle(g, fault)
            IN  IF i.threw THEN Caught(i.fs) ELSE i
    IN  IF ~existsSync(f, DATA_FILE) THEN Init0(f)
        ELSE IF fault = "read" \/ ParseThrows(f[DATA_FILE]) THEN Caught(f)
        ELSE
          LET parsed == JSONparse(f[DATA_FILE])
          IN  IF Falsy(parsed) \/ typeOf(parsed) # "object" THEN Init0(f)
              ELSE Returned(f, EnsureFields(parsed))

\* ---- the multi-room server (server.js) ----

Letters ==
    {"a", "b", "c", "d", "e", "f", "g", "h", "i", "j", "k", "l", "m",
     "n", "o", "p", "q", "r", "s", "t", "u", "v", "w", "x", "y", "z",
     "A", "B", "C", "D", "E", "F", "G", "H", "I", "J", "K", "L", "M",
     "N", "O", "P", "Q", "R", "S", "T", "U", "V", "W", "X", "Y", "Z"}

\* Mutant: the class without the dash.
IsCodeChar_NoDash(c) == c \in Letters \/ IsDigit(c) \/ c = "_"

\* [a-zA-Z0-9-_]
IsCodeChar(c) == c \in Letters \/ IsDigit(c) \/ c \in {"-", "_"}

\* accessCode.replace(/[^a-zA-Z0-9-_]/g, '_')
Sanitize(s) == [i \in 1..Len(s) |-> IF IsCodeChar(s[i]) THEN s[i] ELSE "_"]

\* /^[a-zA-Z0-9_-]+$/.test(accessCode)
ValidCode(s) == s # <<>> /\ \A i \in 1..Len(s) : IsCodeChar(s[i])

\* Mutant: one document for every access code.
getDataFile_Shared(accessCode) ==
    IF accessCode.t = "string"
    THEN [threw |-> FALSE, path |-> <<"counter-data-", ".json">>]
    ELSE [threw |-> TRUE, path |-> <<>>]

\* The path of a room's document; calling replace on anything but a string
\* is a TypeError.
getDataFile(accessCode) ==
    IF accessCode.t = "string"
    THEN [threw |-> FALSE,
          path |-> <<"counter-data-">> \o Sanitize(accessCode.v) \o <<".json">>]
    ELSE [threw |-> TRUE, path |-> <<>>]

writeData(f, accessCode, data, fault) ==
    LET dataFile == getDataFile(accessCode)
    IN  IF dataFile.threw THEN Thrown(f)
        ELSE WriteFile(f, dataFile.path, data, fault)

initialData(accessCode) ==
    Obj([k \in {"accessCode", "count", "log", "lastIncrementTime",
                "pushSubscriptions"} |->
            CASE k = "accessCode" -> accessCode
              [] k \in {"log", "pushSubscriptions"} -> Arr(<<>>)
              [] OTHER -> Num(0)])

\* Mutant: the fresh document is returned and not written.
initializeData_Unsaved(f, accessCode, fault) ==
    Returned(f, initialData(accessCode))

initializeData(f, accessCode, fault) ==
    LET w == writeData(f, accessCode, initialData(accessCode), fault)
    IN  IF w.threw THEN w ELSE Returned(w.fs, initialData(accessCode))

\* Mutant: the backup is never looked at.
tryRestoreFromBackup_Never(f, accessCode) == Null

tryRestoreFromBackup(f, accessCode) ==
    RestoreFrom(f, getDataFile(accessCode).path)

\* The fields the multi-room server ensures on top of the three.
EnsureRoomFields(parsed, accessCode) ==
    LET p3 == EnsureFields(parsed)
        p4 == IF ~IsArray(Get(p3, "pushSubscriptions"))
              THEN Set(p3, "pushSubscriptions", Arr(<<>>)) ELSE p3
    IN  IF typeOf(Get(p4, "accessCode")) # "string"
        THEN Set(p4, "accessCode", accessCode) ELSE p4

readData(f, accessCode, fault) ==
    LET dataFile == getDataFile(accessCode)
        Caught(g) ==
            LET backupData == tryRestoreFromBackup(g, accessCode)
            IN  IF ~Falsy(backupData) THEN Returned(g, backupData)
                ELSE initializeData(g, accessCode, fault)
        Init0(g) ==
            LET i == initializeData(g, accessCode, fault)
            IN  IF i.threw THEN Caught(i.fs) ELSE i
    IN  IF dataFile.threw THEN Thrown(f)
        ELSE IF ~existsSync(f, dataFile.path) THEN Init0(f)
        ELSE IF fault = "read" \/ ParseThrows(f[dataFile.path]) THEN Caught(f)
        ELSE
          LET parsed == JSONparse(f[dataFile.path])
          IN  IF Falsy(parsed) \/ typeOf(parsed) # "object" THEN Init0(f)
              ELSE Returned(f, EnsureRoomFields(parsed, accessCode))

---------------------------------------------------------------------------
(* The request handlers' bodies, the same in both servers                  *)

\* What a handler body yields: "ok" with the changed document, "limited"
\* with the seconds to wait, "notfound", or "throw" (a TypeError).
Outcome(kind, data, remainingTime) ==
    [kind |-> kind, data |-> data, remainingTime |-> remainingTime]

\* Mutant: the entry records no running count.
NewEntry_NoCount(id, timestamp, count, username) ==
    IF username.t = "undefined"
    THEN [id |-> id, timestamp |-> timestamp, count |-> Num(0)]
    ELSE [id |-> id, timestamp |-> timestamp, count |-> Num(0),
          username |-> username]

\* The log entry an increment creates (the single-document server records no user).
NewEntry(id, timestamp, count, username) ==
    IF username.t = "undefined"
    THEN [id |-> id, timestamp |-> timestamp, count |-> count]
    ELSE [id |-> id, timestamp |-> timestamp, count |-> count,
          username |-> username]

\* Mutant: push in place of unshift.
Unshift_Push(log, entry) == log \o <<entry>>

\* log.unshift(entry)
Unshift(log, entry) == <<entry>> \o log

\* Mutant: the log is never cut.
Slice_All(log, n) == log

\* Mutant: slice(-n), which keeps the oldest entry and drops the newest.
Slice_Tail(log, n) ==
    SubSeq(log, IF Len(log) < n THEN 1 ELSE Len(log) - n + 1, Len(log))

\* data.log.slice(0, n)
Slice(log, n) == SubSeq(log, 1, IF Len(log) < n THEN Len(log) ELSE n)

\* Mutant: the window is kept per user; a request is limited only when the
\* newest entry is the requester's own.
IncrementBody_PerUser(data, now, timestamp, id, username) ==
    LET timeSinceLastIncrement ==
            Minus(Num(now), Get(data, "lastIncrementTime"))
        log == Get(data, "log")
        own == /\ IsArray(log) /\ Len(log.v) > 0
               /\ "username" \in DOMAIN log.v[1]
               /\ log.v[1].username = username
    IN  IF own /\ LessThan(timeSinceLastIncrement, Num(RATE_LIMIT_MS))
        THEN Outcome("limited", data,
                     CeilSeconds(Minus(Num(RATE_LIMIT_MS), timeSinceLastIncrement)))
        ELSE
          LET count == PlusOne(Get(data, "count"))
              d1 == Set(Set(data, "count", count), "lastIncrementTime", Num(now))
          IN  IF data.t # "object" \/ ~IsArray(log)
              THEN Outcome("throw", data, Undefined)
              ELSE
                LET unshifted ==
                        Unshift(log.v, NewEntry(id, timestamp, count, username))
                    kept == IF Len(unshifted) > LOG_LIMIT
                            THEN Slice(unshifted, LOG_LIMIT) ELSE unshifted
                IN  Outcome("ok", Set(d1, "log", Arr(kept)), Undefined)

\* POST /api/increment after the document is read: now is the first clock
\* reading, timestamp and id come from the later readings.
IncrementBody(data, now, timestamp, id, username) ==
    LET timeSinceLastIncrement ==
            Minus(Num(now), Get(data, "lastIncrementTime"))
    IN  IF LessThan(timeSinceLastIncrement, Num(RATE_LIMIT_MS))
        THEN Outcome("limited", data,
                     CeilSeconds(Minus(Num(RATE_LIMIT_MS), timeSinceLastIncrement)))
        ELSE
          LET count == PlusOne(Get(data, "count"))
              d1 == Set(Set(data, "count", count), "lastIncrementTime", Num(now))
              log == Get(data, "log")
          IN  IF data.t # "object" \/ ~IsArray(log)
              THEN Outcome("throw", data, Undefined)
              ELSE
                LET unshifted ==
                        Unshift(log.v, NewEntry(id, timestamp, count, username))
                    kept == IF Len(unshifted) > LOG_LIMIT
                            THEN Slice(unshifted, LOG_LIMIT) ELSE unshifted
                IN  Outcome("ok", Set(d1, "log", Arr(kept)), Undefined)

\* log.findIndex(entry => entry.id === logId): the first match, 0 for none.
FindIndex(log, logId) ==
    IF \E i \in 1..Len(log) : log[i].id = logId
    THEN CHOOSE i \in 1..Len(log) :
            /\ log[i].id = logId
            /\ \A j \in 1..(i - 1) : log[j].id # logId
    ELSE 0

\* log.splice(i, 1)
Splice(log, i) == SubSeq(log, 1, i - 1) \o SubSeq(log, i + 1, Len(log))

\* Mutant: the comparator of an ascending sort.
CompareIds_Ascending(a, b) ==
    LET d == Minus(parseInt(a.id), parseInt(b.id))
    IN  IF d.t = "NaN" THEN 0 ELSE d.v

\* The comparator (a, b) => parseInt(b.id) - parseInt(a.id); NaN compares as 0.
CompareIds(a, b) ==
    LET d == Minus(parseInt(b.id), parseInt(a.id))
    IN  IF d.t = "NaN" THEN 0 ELSE d.v

\* x put into a list sorted by the comparator, after the entries it does not
\* precede (the sort is stable).
RECURSIVE InsertSorted(_, _)
InsertSorted(x, sorted) ==
    IF sorted = <<>> THEN <<x>>
    ELSE IF CompareIds(x, Head(sorted)) < 0 THEN <<x>> \o sorted
    ELSE <<Head(sorted)>> \o InsertSorted(x, Tail(sorted))

\* [...log].sort(comparator)
RECURSIVE SortLog(_, _)
SortLog(log, sorted) ==
    IF log = <<>> THEN sorted
    ELSE SortLog(Tail(log), InsertSorted(Head(log), sorted))

\* Mutant: lastIncrementTime is left as it was.
DeleteBody_KeepsLast(data, logId) ==
    LET log == Get(data, "log")
    IN  IF data.t # "object" \/ ~IsArray(log)
        THEN Outcome("throw", data, Undefined)
        ELSE
          LET logIndex == FindIndex(log.v, logId)
          IN  IF logIndex = 0 THEN Outcome("notfound", data, Undefined)
              ELSE
                LET rest == Splice(log.v, logIndex)
                IN  Outcome("ok",
                        Set(Set(data, "log", Arr(rest)), "count", Num(Len(rest))),
                        Undefined)

\* DELETE /api/log/:id after the document is read.
DeleteBody(data, logId) ==
    LET log == Get(data, "log")
    IN  IF data.t # "object" \/ ~IsArray(log)
        THEN Outcome("throw", data, Undefined)
        ELSE
          LET logIndex == FindIndex(log.v, logId)
          IN  IF logIndex = 0 THEN Outcome("notfound", data, Undefined)
              ELSE
                LET rest == Splice(log.v, logIndex)
                    sortedLog == SortLog(rest, <<>>)
                    last == IF Len(rest) > 0
                            THEN parseInt(sortedLog[1].id) ELSE Num(0)
                IN  Outcome("ok",
                        Set(Set(Set(data, "log", Arr(rest)),
                                "count", Num(Len(rest))),
                            "lastIncrementTime", last),
                        Undefined)

\* GET /api/button-state after the document is read.
ButtonStateBody(data, now) ==
    LET timeSinceLastIncrement ==
            Minus(Num(now), Get(data, "lastIncrementTime"))
        isEnabled == AtLeast(timeSinceLastIncrement, Num(RATE_LIMIT_MS))
    IN  Obj([k \in {"isEnabled", "remainingTime", "lastIncrementTime"} |->
            CASE k = "isEnabled" -> Bool(isEnabled)
              [] k = "remainingTime" ->
                    IF isEnabled THEN Num(0)
                    ELSE CeilSeconds(Minus(Num(RATE_LIMIT_MS),
                                           timeSinceLastIncrement))
              [] OTHER -> Get(data, "lastIncrementTime")])

\* Mutant: nothing is filtered out.
WithoutEndpoint_All(subs, endpoint) == subs

\* subs.filter(sub => sub.endpoint !== endpoint)
RECURSIVE WithoutEndpoint(_, _)
WithoutEndpoint(subs, endpoint) ==
    IF subs = <<>> THEN <<>>
    ELSE IF Head(subs).endpoint = endpoint
         THEN WithoutEndpoint(Tail(subs), endpoint)
         ELSE <<Head(subs)>> \o WithoutEndpoint(Tail(subs), endpoint)

SUBSCRIPTION_LIMIT == 50

\* POST /api/subscribe after the document is read: the subscription replaces
\* the one with its endpoint and the last 50 are kept.
SubscribeBody(data, subscription) ==
    LET subs == Get(data, "pushSubscriptions")
    IN  IF data.t # "object" \/ ~IsArray(subs)
        THEN Outcome("throw", data, Undefined)
        ELSE
          LET pushed == WithoutEndpoint(subs.v, subscription.endpoint)
                            \o <<subscription>>
              kept == IF Len(pushed) > SUBSCRIPTION_LIMIT
                      THEN SubSeq(pushed, Len(pushed) - SUBSCRIPTION_LIMIT + 1,
                                  Len(pushed))
                      ELSE pushed
          IN  Outcome("ok", Set(data, "pushSubscriptions", Arr(kept)), Undefined)

\* POST /api/import-data before the write: a payload that is no object is
\* refused, the three fields are ensured.
ImportBody(importedData) ==
    IF Falsy(importedData) \/ typeOf(importedData) # "object"
    THEN Outcome("invalid", importedData, Undefined)
    ELSE Outcome("ok", EnsureFields(importedData), Undefined)

---------------------------------------------------------------------------
(* Requests and responses                                                  *)

\* The response to a request: op names the route, code the access code the
\* request carried in its cookie, id the :id of a DELETE.
Resp(op, status, remainingTime, body, code, id) ==
    [op |-> op, status |-> status, remainingTime |-> remainingTime,
     body |-> body, code |-> code, id |-> id]

\* The access codes clients log in with.
Codes == {<<"a">>, <<"b", "-", "1">>}

\* The names clients log in with.
Users == {<<"E", "d">>}

\* The clock readings of one handler: the second reading may come later.
Skews == {0, 1}

\* new Date().toLocaleString(): the reading, to the second.
toLocaleString(t) == t \div 1000

\* The current document of the single-document server and its fields.
Doc == fs[DATA_FILE]
LogOf(d) == Get(d, "log").v
CountOf(d) == Get(d, "count").v
LastOf(d) == Get(d, "lastIncrementTime").v

\* The ids a DELETE request may name: the newest, the second newest and the
\* oldest entry of the log, and one that no entry has.
DeleteIds(log) ==
    {log[i].id : i \in {j \in {1, 2, Len(log)} : j \in 1..Len(log)}} \cup {<<"0">>}


\* How a handler answers: a thrown error is Express's 500, a rate limit 429,
\* an unknown id 404; otherwise the written document is sent back. r is the
\* read, b the body's outcome, w the write.
Respond(op, r, b, w, code, id) ==
    IF r.threw
    THEN [fs |-> r.fs, res |-> Resp(op, 500, Undefined, Undefined, code, id)]
    ELSE CASE b.kind = "limited" ->
                [fs |-> r.fs,
                 res |-> Resp(op, 429, b.remainingTime, Undefined, code, id)]
           [] b.kind = "notfound" ->
                [fs |-> r.fs, res |-> Resp(op, 404, Undefined, Undefined, code, id)]
           [] b.kind = "throw" ->
                [fs |-> r.fs, res |-> Resp(op, 500, Undefined, Undefined, code, id)]
           [] OTHER ->
                IF w.threw
                THEN [fs |-> w.fs,
                      res |-> Resp(op, 500, Undefined, Undefined, code, id)]
                ELSE [fs |-> w.fs,
                      res |-> Resp(op, 200, Undefined, b.data, code, id)]

\* The number of increment requests handled so far.
calls == Len(hist) + rejected

\* An irregular step has happened in this run.
Irregular == lag + deletes + rejected + imports > 0

\* The bookkeeping of an increment request read at clock reading now, which
\* answered with out, the clock having moved by read ms inside the handler.
CountCall(now, out, read) ==
    LET sp == spaced /\ (calls = 0 \/ now - lastCall >= RATE_LIMIT_MS)
    IN  /\ spaced' = sp
        /\ lastCall' = IF sp THEN now ELSE 0
        /\ IF out.res.status = 200
           THEN /\ Len(hist) < MaxMade
                /\ (Irregular \/ read > 0) => Len(hist) < MaxShort
                /\ hist' = <<Head(Get(out.res.body, "log").v)>> \o hist
                /\ rejected' = rejected
           ELSE /\ rejected < MaxRejected
                /\ hist' = hist
                /\ rejected' = rejected + 1

---------------------------------------------------------------------------
(* The single-document server (part_000)                                   *)

\* POST /api/increment
IncrementSingle ==
    /\ server = "single"
    /\ \E skew \in Skews, tskew \in Skews :
        /\ tskew <= skew
        /\ lag + skew <= MaxLag
        /\ \E r \in {readDataSingle(fs, "none")} :
           \E b \in {IF r.threw THEN Outcome("throw", Undefined, Undefined)
                     ELSE IncrementBody(r.val, clock, toLocaleString(clock + tskew),
                                        toString(clock + skew), Undefined)} :
           \E w \in {IF b.kind = "ok" THEN writeDataSingle(r.fs, b.data, "none")
                     ELSE Thrown(r.fs)} :
           \E out \in {Respond("increment", r, b, w, <<>>, <<>>)} :
            /\ b.kind # "ok" => skew = 0
            /\ clock' = clock + skew
            /\ lag' = lag + skew
            /\ fs' = out.fs
            /\ res' = out.res
            /\ CountCall(clock, out, skew)
            /\ UNCHANGED <<server, deletes, imports>>

\* DELETE /api/log/:id
DeleteSingle ==
    /\ server = "single"
    /\ \E r \in {readDataSingle(fs, "none")} :
       \E log \in {IF r.threw THEN Undefined ELSE Get(r.val, "log")} :
       \E logId \in DeleteIds(IF IsArray(log) THEN log.v ELSE <<>>) :
       \E b \in {IF r.threw THEN Outcome("throw", Undefined, Undefined)
                 ELSE DeleteBody(r.val, logId)} :
       \E w \in {IF b.kind = "ok" THEN writeDataSingle(r.fs, b.data, "none")
                 ELSE Thrown(r.fs)} :
       \E out \in {Respond("delete", r, b, w, <<>>, logId)} :
        /\ out.res.status = 200 => deletes < MaxDeletes
        /\ deletes' = IF out.res.status = 200 THEN deletes + 1 ELSE deletes
        /\ fs' = out.fs
        /\ res' = out.res
        /\ UNCHANGED <<server, clock, rejected, lastCall, spaced, hist, lag, imports>>

---------------------------------------------------------------------------
(* The multi-room server (server.js)                                       *)

\* The route of a request, a path in pieces.
ApiPath(name) == <<"/api/", name>>

\* The access control middleware: what it leaves on the request. A path that
\* starts with /api/ is passed on at once; otherwise a valid access code from
\* the cookie is stored on the request with the user name.
AccessControl(path, code, user) ==
    IF Head(path) = "/api/"
    THEN [accessCode |-> Undefined, username |-> Undefined, redirect |-> FALSE]
    ELSE IF code # <<>> /\ ValidCode(code)
    THEN [accessCode |-> Str(code),
          username |-> IF user # <<>> THEN Str(user) ELSE Str(<<"Anonymous">>),
          redirect |-> FALSE]
    ELSE [accessCode |-> Undefined, username |-> Undefined, redirect |-> TRUE]

\* req.username || 'Anonymous'
UserOf(req) ==
    IF Falsy(req.username) THEN Str(<<"Anonymous">>) ELSE req.username

\* GET / : the page, or the redirect to /login.
PageRooms ==
    /\ server = "rooms"
    /\ \E code \in Codes \cup {<<>>}, user \in Users :
        \E req \in {AccessControl(<<"/">>, code, user)} :
            res' = Resp("page", IF req.redirect THEN 302 ELSE 200,
                        Undefined, Undefined, code, <<>>)
    /\ UNCHANGED <<server, clock, fs, rejected, lastCall, spaced, hist, deletes, lag,
                   imports>>

\* GET /api/counter : readData(req.accessCode)
CounterRooms ==
    /\ server = "rooms"
    /\ \E code \in Codes, user \in Users :
       \E req \in {AccessControl(ApiPath("counter"), code, user)} :
       \E r \in {readData(fs, req.accessCode, "none")} :
        /\ fs' = r.fs
        /\ res' = IF r.threw
                  THEN Resp("counter", 500, Undefined, Undefined, code, <<>>)
                  ELSE Resp("counter", 200, Undefined, r.val, code, <<>>)
    /\ UNCHANGED <<server, clock, rejected, lastCall, spaced, hist, deletes, lag,
                   imports>>

\* GET /api/button-state : readData(req.accessCode)
ButtonStateRooms ==
    /\ server = "rooms"
    /\ \E code \in Codes, user \in Users :
       \E req \in {AccessControl(ApiPath("button-state"), code, user)} :
       \E r \in {readData(fs, req.accessCode, "none")} :
        /\ fs' = r.fs
        /\ res' = IF r.threw
                  THEN Resp("button-state", 500, Undefined, Undefined, code, <<>>)
                  ELSE Resp("button-state", 200, Undefined,
                            ButtonStateBody(r.val, clock), code, <<>>)
    /\ UNCHANGED <<server, clock, rejected, lastCall, spaced, hist, deletes, lag,
                   imports>>

\* The endpoints of the push subscriptions clients send.
Endpoints == {<<"e", "1">>, <<"e", "2">>}

\* POST /api/subscribe : readData(req.accessCode), then writeData(data), whose
\* first parameter, the access code, receives the document.
SubscribeRooms ==
    /\ server = "rooms"
    /\ \E code \in Codes, user \in Users, endpoint \in Endpoints :
       \E req \in {AccessControl(ApiPath("subscribe"), code, user)} :
       \E r \in {readData(fs, req.accessCode, "none")} :
       \E b \in {IF r.threw THEN Outcome("throw", Undefined, Undefined)
                 ELSE SubscribeBody(r.val, [endpoint |-> endpoint])} :
       \E w \in {IF b.kind = "ok" THEN writeData(r.fs, b.data, Undefined, "none")
                 ELSE Thrown(r.fs)} :
        /\ fs' = IF b.kind = "ok" THEN w.fs ELSE r.fs
        /\ res' = Resp("subscribe", IF b.kind = "ok" /\ ~w.threw THEN 201 ELSE 500,
                       Undefined, Undefined, code, <<>>)
    /\ UNCHANGED <<server, clock, rejected, lastCall, spaced, hist, deletes, lag,
                   imports>>

\* GET /api/export-data : readData() with no access code, inside a try.
ExportRooms ==
    /\ server = "rooms"
    /\ \E code \in Codes, user \in Users :
       \E r \in {readData(fs, Undefined, "none")} :
        /\ fs' = r.fs
        /\ res' = IF r.threw
                  THEN Resp("export", 500, Undefined, Undefined, code, <<>>)
                  ELSE Resp("export", 200, Undefined, r.val, code, <<>>)
    /\ UNCHANGED <<server, clock, rejected, lastCall, spaced, hist, deletes, lag,
                   imports>>

\* The payloads clients import: a document, one with fields of the wrong
\* type, and a value that is no object.
Payloads ==
    {Obj([k \in {"count", "log", "lastIncrementTime"} |->
            IF k = "log" THEN Arr(<<>>) ELSE Num(0)]),
     Obj([k \in {"count", "log"} |->
            IF k = "log" THEN Null ELSE Str(<<"5">>)]),
     Null}

\* POST /api/import-data : writeData(importedData) inside a try; the access
\* code parameter receives the payload.
ImportRooms ==
    /\ server = "rooms"
    /\ \E code \in Codes, user \in Users, payload \in Payloads :
       \E b \in {ImportBody(JSONparse(payload))} :
       \E w \in {IF b.kind = "ok" THEN writeData(fs, b.data, Undefined, "none")
                 ELSE Thrown(fs)} :
        /\ fs' = w.fs
        /\ res' = Resp("import",
                       IF b.kind = "invalid" THEN 400
                       ELSE IF w.threw THEN 500 ELSE 200,
                       Undefined, Undefined, code, <<>>)
    /\ UNCHANGED <<server, clock, rejected, lastCall, spaced, hist, deletes, lag,
                   imports>>

\* POST /api/increment : readData() with no access code, then writeData(data).
IncrementRooms ==
    /\ server = "rooms"
    /\ \E code \in Codes, user \in Users, skew \in Skews, tskew \in Skews :
        /\ tskew <= skew
        /\ lag + skew <= MaxLag
        /\ \E req \in {AccessControl(ApiPath("increment"), code, user)} :
           \E r \in {readData(fs, Undefined, "none")} :
           \E b \in {IF r.threw THEN Outcome("throw", Undefined, Undefined)
                     ELSE IncrementBody(r.val, clock, toLocaleString(clock + tskew),
                                        toString(clock + skew), UserOf(req))} :
           \E w \in {IF b.kind = "ok"
                     THEN writeData(r.fs, b.data, Undefined, "none")
                     ELSE Thrown(r.fs)} :
           \E out \in {Respond("increment", r, b, w, code, <<>>)} :
            /\ b.kind # "ok" => skew = 0
            /\ clock' = clock + skew
            /\ lag' = lag + skew
            /\ fs' = out.fs
            /\ res' = out.res
            /\ CountCall(clock, out, skew)
            /\ UNCHANGED <<server, deletes, imports>>

\* DELETE /api/log/:id : readData() with no access code, then writeData(data).
DeleteRooms ==
    /\ server = "rooms"
    /\ \E code \in Codes, user \in Users :
       \E r \in {readData(fs, Undefined, "none")} :
       \E log \in {IF r.threw THEN Undefined ELSE Get(r.val, "log")} :
       \E logId \in DeleteIds(IF IsArray(log) THEN log.v ELSE <<>>) :
       \E b \in {IF r.threw THEN Outcome("throw", Undefined, Undefined)
                 ELSE DeleteBody(r.val, logId)} :
       \E w \in {IF b.kind = "ok" THEN writeData(r.fs, b.data, Undefined, "none")
                 ELSE Thrown(r.fs)} :
       \E out \in {Respond("delete", r, b, w, code, logId)} :
        /\ out.res.status = 200 => deletes < MaxDeletes
        /\ deletes' = IF out.res.status = 200 THEN deletes + 1 ELSE deletes
        /\ fs' = out.fs
        /\ res' = out.res
        /\ UNCHANGED <<server, clock, rejected, lastCall, spaced, hist, lag, imports>>

---------------------------------------------------------------------------
(* Time                                                                    *)

\* The instant from which the single-document server accepts an increment.
NextAllowed ==
    (IF server = "single" /\ existsSync(fs, DATA_FILE)
        /\ Get(Doc, "lastIncrementTime").t = "number"
     THEN LastOf(Doc) ELSE 0) + RATE_LIMIT_MS

\* The clock moves on: by 1 ms (counted in lag), or by a long step up to the
\* instant increments are accepted again.
Tick ==
    /\ \E d \in {1, RATE_LIMIT_MS - 1, RATE_LIMIT_MS} :
        /\ IF d = 1 THEN lag < MaxLag /\ lag' = lag + 1
           ELSE clock + d <= NextAllowed /\ lag' = lag
        /\ clock' = clock + d
    /\ UNCHANGED <<server, fs, res, rejected, lastCall, spaced, hist, deletes,
                   imports>>

---------------------------------------------------------------------------
(* The specification                                                       *)

\* The single-document server has created its document when it starts
\* listening; the multi-room server creates documents on demand.
Init ==
    /\ server \in {"single", "rooms"}
    /\ clock = StartTime
    /\ fs = IF server = "single"
            THEN WriteTo(NoFiles, DATA_FILE, JSONstringify(initialDataSingle))
            ELSE NoFiles
    /\ res = Resp("start", 0, Undefined, Undefined, <<>>, <<>>)
    /\ rejected = 0
    /\ lastCall = 0
    /\ spaced = TRUE
    /\ hist = <<>>
    /\ deletes = 0
    /\ lag = 0
    /\ imports = 0

Next ==
    \/ IncrementSingle
    \/ DeleteSingle
    \/ PageRooms
    \/ CounterRooms
    \/ ButtonStateRooms
    \/ SubscribeRooms
    \/ ExportRooms
    \/ ImportRooms
    \/ IncrementRooms
    \/ DeleteRooms
    \/ Tick

Spec == Init /\ [][Next]_vars

---------------------------------------------------------------------------
(* The single-document server with imports                                 *)

\* A document whose log is not ordered by id: the newest entry is the second.
UnorderedDoc ==
    Obj([k \in {"count", "log", "lastIncrementTime"} |->
            CASE k = "count" -> Num(3)
              [] k = "log" ->
                    Arr(<<[id |-> <<"5">>, timestamp |-> 0, count |-> 1],
                          [id |-> <<"9">>, timestamp |-> 0, count |-> 3],
                          [id |-> <<"7">>, timestamp |-> 0, count |-> 2]>>)
              [] OTHER -> Num(9)])

\* POST /api/import-data of the single-document server: the payload replaces
\* the document. Clients import before the first increment.
ImportSingle ==
    /\ server = "single"
    /\ imports < MaxImports
    /\ calls = 0
    /\ \E payload \in Payloads \cup {UnorderedDoc} :
       \E b \in {ImportBody(JSONparse(payload))} :
       \E w \in {IF b.kind = "ok" THEN writeDataSingle(fs, b.data, "none")
                 ELSE Thrown(fs)} :
        /\ fs' = w.fs
        /\ res' = Resp("import",
                       IF b.kind = "invalid" THEN 400
                       ELSE IF w.threw THEN 500 ELSE 200,
                       Undefined, Undefined, <<>>, <<>>)
    /\ imports' = imports + 1
    /\ UNCHANGED <<server, clock, rejected, lastCall, spaced, hist, deletes, lag>>

NextImport ==
    \/ Next
    \/ ImportSingle

SpecImport == Init /\ [][NextImport]_vars

---------------------------------------------------------------------------
(* The single-document server with its button state                        *)

\* GET /api/button-state of the single-document server.
ButtonStateSingle ==
    /\ server = "single"
    /\ \E r \in {readDataSingle(fs, "none")} :
        /\ fs' = r.fs
        /\ res' = IF r.threw
                  THEN Resp("button-state", 500, Undefined, Undefined, <<>>, <<>>)
                  ELSE Resp("button-state", 200,
                            Get(ButtonStateBody(r.val, clock), "remainingTime"),
                            ButtonStateBody(r.val, clock), <<>>, <<>>)
    /\ UNCHANGED <<server, clock, rejected, lastCall, spaced, hist, deletes, lag,
                   imports>>

NextButton ==
    \/ Next
    \/ ButtonStateSingle

SpecButton == Init /\ [][NextButton]_vars

---------------------------------------------------------------------------
(* The state store of the multi-room server, called with access codes      *)

\* Access codes that differ in one character the file name keeps.
StoreCodes == {<<"a">>, <<"a", "_">>}

\* The clock of the store's callers stops after this many rate-limit windows.
MaxWindows == 1

\* Mutant: the filtered subscriptions are persisted in a fresh document
\* and not in the document that was read.
removeInvalidSubscription_Fresh(f, accessCode, endpoint, fault) ==
    LET r == readData(f, accessCode, "none")
    IN  IF r.threw THEN r
        ELSE IF ~IsArray(Get(r.val, "pushSubscriptions")) THEN Thrown(r.fs)
        ELSE writeData(r.fs, accessCode,
                       Set(initialData(accessCode), "pushSubscriptions",
                           Arr(WithoutEndpoint(Get(r.val, "pushSubscriptions").v,
                                               endpoint))),
                       fault)

\* removeInvalidSubscription(accessCode, endpoint)
removeInvalidSubscription(f, accessCode, endpoint, fault) ==
    LET r == readData(f, accessCode, "none")
    IN  IF r.threw THEN r
        ELSE IF ~IsArray(Get(r.val, "pushSubscriptions")) THEN Thrown(r.fs)
        ELSE writeData(r.fs, accessCode,
                       Set(r.val, "pushSubscriptions",
                           Arr(WithoutEndpoint(Get(r.val, "pushSubscriptions").v,
                                               endpoint))),
                       fault)

\* The users of a room.
StoreUsers == {<<"E", "d">>, <<"A", "l">>}

\* POST /api/increment of a user on the state read for a room at an instant.
Attempt(f, code, now, user) ==
    IncrementBody(readData(f, Str(code), "none").val, now, toLocaleString(now),
                  toString(now), Str(user))

\* The documents a caller that has read data persists: data after an
\* increment of one of the users, and data with a subscription added.
Changed(data, now) ==
    {b.data : b \in {o \in {IncrementBody(data, now, toLocaleString(now),
                                          toString(now), Str(u)) :
                                u \in StoreUsers}
                            \cup {SubscribeBody(data, [endpoint |-> <<"e", "1">>])} :
                      o.kind = "ok"}}

\* readData(accessCode)
ReadRoom ==
    /\ server = "store"
    /\ \E code \in StoreCodes, fault \in Faults \cup {"read"} :
       \E r \in {readData(fs, Str(code), fault)} :
        /\ fs' = r.fs
        /\ res' = Resp("read", IF r.threw THEN 500 ELSE 200, Undefined,
                       Undefined, code, <<>>)
    /\ UNCHANGED <<server, clock, rejected, lastCall, spaced, hist, deletes, lag,
                   imports>>

\* readData(accessCode), a change, writeData(accessCode, data)
WriteRoom ==
    /\ server = "store"
    /\ \E code \in StoreCodes, fault \in Faults :
       \E r \in {readData(fs, Str(code), "none")} :
        /\ ~r.threw
        /\ \E data \in Changed(r.val, clock) :
           \E w \in {writeData(r.fs, Str(code), data, fault)} :
            /\ fs' = w.fs
            /\ res' = Resp("write", IF w.threw THEN 500 ELSE 200, Undefined,
                           Undefined, code, <<>>)
    /\ UNCHANGED <<server, clock, rejected, lastCall, spaced, hist, deletes, lag,
                   imports>>

\* removeInvalidSubscription(accessCode, subscription.endpoint)
RemoveRoom ==
    /\ server = "store"
    /\ \E code \in StoreCodes, endpoint \in Endpoints, fault \in Faults :
       \E w \in {removeInvalidSubscription(fs, Str(code), endpoint, fault)} :
        /\ fs' = w.fs
        /\ res' = Resp("remove", IF w.threw THEN 500 ELSE 200, Undefined,
                       Undefined, code, <<>>)
    /\ UNCHANGED <<server, clock, rejected, lastCall, spaced, hist, deletes, lag,
                   imports>>

\* A rate-limit window passes.
StoreTick ==
    /\ server = "store"
    /\ clock < StartTime + MaxWindows * RATE_LIMIT_MS
    /\ clock' = clock + RATE_LIMIT_MS
    /\ UNCHANGED <<server, fs, res, rejected, lastCall, spaced, hist, deletes,
                   lag, imports>>

StoreInit ==
    /\ server = "store"
    /\ clock = StartTime
    /\ fs = NoFiles
    /\ res = Resp("start", 0, Undefined, Undefined, <<>>, <<>>)
    /\ rejected = 0
    /\ lastCall = 0
    /\ spaced = TRUE
    /\ hist = <<>>
    /\ deletes = 0
    /\ lag = 0
    /\ imports = 0

StoreNext ==
    \/ ReadRoom
    \/ WriteRoom
    \/ RemoveRoom
    \/ StoreTick

StoreSpec == StoreInit /\ [][StoreNext]_vars

---------------------------------------------------------------------------
(* The state store on a disk with any content, failures and crashes        *)

\* The room whose document the multi-room server's store is called for.
RoomKey == <<"a">>

\* Load, Recover and Persist of the server under check.
Load(f, fault) ==
    IF server = "single" THEN readDataSingle(f, fault)
    ELSE readData(f, Str(RoomKey), fault)

Recover(f) ==
    IF server = "single" THEN tryRestoreFromBackupSingle(f)
    ELSE tryRestoreFromBackup(f, Str(RoomKey))

Persist(f, data, fault) ==
    IF server = "single" THEN writeDataSingle(f, data, fault)
    ELSE writeData(f, Str(RoomKey), data, fault)

\* The canonical document, its backup and the temporary file.
DataFile == IF server = "single" THEN DATA_FILE ELSE getDataFile(Str(RoomKey)).path
BackupFile == DataFile \o <<".backup">>
TempFile == DataFile \o <<".tmp">>

\* A document as the servers write it, with a field of its own.
GoodDoc ==
    Obj([k \in {"count", "log", "lastIncrementTime", "note"} |->
            CASE k = "count" -> Num(2)
              [] k = "log" ->
                    Arr(<<[id |-> <<"9">>, timestamp |-> 0, count |-> 2],
                          [id |-> <<"5">>, timestamp |-> 0, count |-> 1]>>)
              [] k = "lastIncrementTime" -> Num(9)
              [] OTHER -> Str(<<"n">>)])

\* { "count": "5", "log": null, "note": "n" }
WrongTypedDoc ==
    Obj([k \in {"count", "log", "note"} |->
            CASE k = "count" -> Str(<<"5">>)
              [] k = "log" -> Null
              [] OTHER -> Str(<<"n">>)])

\* { "count": 3, "log": [], "lastIncrementTime": "7" }
HalfTypedDoc ==
    Obj([k \in {"count", "log", "lastIncrementTime"} |->
            CASE k = "count" -> Num(3)
              [] k = "log" -> Arr(<<>>)
              [] OTHER -> Str(<<"7">>)])

\* What a file may hold: documents, text that is no JSON, and JSON that is
\* no object (5, null, []).
Contents == {GoodDoc, WrongTypedDoc, HalfTypedDoc, Corrupt, Num(5), Null, Arr(<<>>)}

\* The document DELETE leaves when the id that remains is no number: its
\* lastIncrementTime is NaN.
NaNState ==
    DeleteBody(EnsureFields(
                 Obj([k \in {"log"} |->
                        Arr(<<[id |-> <<"x">>, timestamp |-> 0, count |-> 2],
                              [id |-> <<"y">>, timestamp |-> 0, count |-> 1]>>)])),
               <<"x">>).data

\* The states callers persist: what Load returned for a document, that state
\* after an increment, the state with NaN, and values that are no object.
PersistInputs ==
    {EnsureRoomFields(GoodDoc, Str(RoomKey)),
     IncrementBody(EnsureFields(GoodDoc), StartTime, toLocaleString(StartTime),
                   toString(StartTime), Undefined).data,
     NaNState, Null, Undefined, Str(<<"x">>)}

\* The points of writeData at which the process may die.
CrashPoints == {"copying", "copied", "writing", "written", "renamed"}

\* Mutant: the document is written in place, with no temporary file.
Interrupted_InPlace(f, dataFile, data, point) ==
    LET backupFile == dataFile \o <<".backup">>
        f1 == IF existsSync(f, dataFile)
              THEN copyFileSync(f, dataFile, backupFile) ELSE f
    IN  CASE point = "copying" ->
                IF existsSync(f, dataFile) THEN WriteTo(f, backupFile, Corrupt)
                ELSE f
          [] point = "copied" -> f1
          [] point = "writing" -> WriteTo(f1, dataFile, Corrupt)
          [] OTHER -> WriteTo(f1, dataFile, JSONstringify(data))

\* The files a process leaves that dies inside writeData(data): while
\* copying the backup or writing the temporary file (the file is cut short),
\* or after one of the steps. No catch block runs.
Interrupted(f, dataFile, data, point) ==
    LET tempFile == dataFile \o <<".tmp">>
        backupFile == dataFile \o <<".backup">>
        f1 == IF existsSync(f, dataFile)
              THEN copyFileSync(f, dataFile, backupFile) ELSE f
        f2 == WriteTo(f1, tempFile, JSONstringify(data))
    IN  CASE point = "copying" ->
                IF existsSync(f, dataFile) THEN WriteTo(f, backupFile, Corrupt)
                ELSE f
          [] point = "copied" -> f1
          [] point = "writing" -> WriteTo(f1, tempFile, Corrupt)
          [] point = "written" -> f2
          [] OTHER -> renameSync(f2, tempFile, dataFile)

\* What a call left behind: the operation, whether it threw, its argument,
\* the value it returned and the failure the disk was given.
Done(op, threw, arg, val, fault) ==
    [op |-> op, threw |-> threw, arg |-> arg, val |-> val, fault |-> fault]

\* readData
LoadDisk ==
    /\ \E fault \in Faults \cup {"read"} :
       \E r \in {Load(fs, fault)} :
        /\ fs' = r.fs
        /\ res' = Done("load", r.threw, Undefined, r.val, fault)
    /\ UNCHANGED <<server, clock, rejected, lastCall, spaced, hist, deletes, lag,
                   imports>>

\* writeData
PersistDisk ==
    /\ \E data \in PersistInputs, fault \in Faults :
       \E w \in {Persist(fs, data, fault)} :
        /\ fs' = w.fs
        /\ res' = Done("persist", w.threw, data, Undefined, fault)
    /\ UNCHANGED <<server, clock, rejected, lastCall, spaced, hist, deletes, lag,
                   imports>>

\* The process dies inside writeData.
CrashDisk ==
    /\ \E data \in {d \in PersistInputs : ~Falsy(d) /\ typeOf(d) = "object"},
          point \in CrashPoints :
        /\ fs' = Interrupted(fs, DataFile, data, point)
        /\ res' = Done("crash", TRUE, data, Undefined, point)
    /\ UNCHANGED <<server, clock, rejected, lastCall, spaced, hist, deletes, lag,
                   imports>>

\* The clock readings of a button-state request: at the last increment a
\* caller persists, 1 ms, 1001 ms and 19999 ms after it, and a window after it.
Instants == {StartTime + d : d \in {0, 1, 1001, RATE_LIMIT_MS - 1, RATE_LIMIT_MS}}

\* GET /api/button-state of the server under check: the single-document
\* server calls readData(); the multi-room server calls
\* readData(req.accessCode) with what the access control left on the request.
ButtonState(f, now) ==
    LET req == AccessControl(ApiPath("button-state"), RoomKey, <<>>)
        r == IF server = "single" THEN readDataSingle(f, "none")
             ELSE readData(f, req.accessCode, "none")
    IN  IF r.threw THEN r ELSE Returned(r.fs, ButtonStateBody(r.val, now))

\* GET /api/button-state
ButtonDisk ==
    /\ \E now \in Instants :
       \E b \in {ButtonState(fs, now)} :
        /\ fs' = b.fs
        /\ res' = Done("button", b.threw, Num(now), b.val, "none")
    /\ UNCHANGED <<server, clock, rejected, lastCall, spaced, hist, deletes, lag,
                   imports>>

\* The disk holds anything: each of the document and its backup is missing
\* or holds one of the contents; a temporary file may be left over.
DiskInit ==
    /\ server \in {"single", "rooms"}
    /\ clock = StartTime
    /\ \E files \in SUBSET {DataFile, BackupFile, TempFile} :
       \E c \in [files -> Contents] :
        /\ TempFile \in files => c[TempFile] = Corrupt
        /\ fs = c
    /\ res = Done("start", FALSE, Undefined, Undefined, "none")
    /\ rejected = 0
    /\ lastCall = 0
    /\ spaced = TRUE
    /\ hist = <<>>
    /\ deletes = 0
    /\ lag = 0
    /\ imports = 0

DiskNext ==
    \/ LoadDisk
    \/ PersistDisk
    \/ CrashDisk
    \/ ButtonDisk

DiskSpec == DiskInit /\ [][DiskNext]_vars

---------------------------------------------------------------------------
(* The room resolver on any access code                                    *)

\* The longest access code resolved.
MaxCode == 3

\* The characters of the raw access codes: a lower-case and an upper-case
\* letter, a digit, the dash, the underscore, and three the file name does
\* not keep.
CodeChars == {"a", "Z", "9", "-", "_", ".", "/", " "}

\* The raw access codes, the empty one among them.
RawCodes == UNION {[1..n -> CodeChars] : n \in 0..MaxCode}

\* The partition key in a path getDataFile returned: sanitizedCode.
KeyOf(path) == SubSeq(path, 2, Len(path) - 1)

\* getDataFile(accessCode) on a raw access code.
ResolveCode ==
    /\ server = "resolver"
    /\ res.op = "start"
    /\ \E r \in {getDataFile(res.arg)} :
        res' = Done("resolve", r.threw, res.arg, Str(KeyOf(r.path)), "none")
    /\ UNCHANGED <<server, clock, fs, rejected, lastCall, spaced, hist, deletes,
                   lag, imports>>

\* getDataFile(accessCode) on the key a call before returned.
ResolveKey ==
    /\ server = "resolver"
    /\ res.op = "resolve"
    /\ \E r \in {getDataFile(res.val)} :
        res' = Done("resolve again", r.threw, res.val, Str(KeyOf(r.path)), "none")
    /\ UNCHANGED <<server, clock, fs, rejected, lastCall, spaced, hist, deletes,
                   lag, imports>>

ResolverInit ==
    /\ server = "resolver"
    /\ clock = StartTime
    /\ fs = NoFiles
    /\ \E raw \in RawCodes :
        res = Done("start", FALSE, Str(raw), Undefined, "none")
    /\ rejected = 0
    /\ lastCall = 0
    /\ spaced = TRUE
    /\ hist = <<>>
    /\ deletes = 0
    /\ lag = 0
    /\ imports = 0

ResolverNext ==
    \/ ResolveCode
    \/ ResolveKey

ResolverSpec == ResolverInit /\ [][ResolverNext]_vars

---------------------------------------------------------------------------
(* The subscriptions of one room, more of them than the limit              *)

\* The number of subscribe requests made.
MaxSubscribes == 52

\* The number of those that name an endpoint subscribed before.
MaxAgain == 1

\* The endpoints subscribed so far, in the order of the requests, are hist.
Subscribed == {hist[i] : i \in 1..Len(hist)}

\* The subscriptions the room's document holds.
StoredSubscriptions ==
    IF existsSync(fs, getDataFile(Str(RoomKey)).path)
    THEN Get(JSONparse(fs[getDataFile(Str(RoomKey)).path]), "pushSubscriptions").v
    ELSE <<>>

\* The endpoint of the n-th client.
EndpointNo(n) == <<"e">> \o toString(n)

\* The endpoints a request may name: one not yet subscribed, or again the
\* oldest or the newest the document holds.
NextEndpoints ==
    {EndpointNo(Cardinality(Subscribed) + 1)}
        \cup (IF Len(hist) - Cardinality(Subscribed) < MaxAgain
                  /\ StoredSubscriptions # <<>>
               THEN {StoredSubscriptions[1].endpoint,
                     StoredSubscriptions[Len(StoredSubscriptions)].endpoint}
               ELSE {})

\* POST /api/subscribe on the room: readData(accessCode), the subscription
\* put in, writeData(accessCode, data).
SubscribeRoom ==
    /\ server = "subscriptions"
    /\ Len(hist) < MaxSubscribes
    /\ \E endpoint \in NextEndpoints :
       \E r \in {readData(fs, Str(RoomKey), "none")} :
       \E b \in {IF r.threw THEN Outcome("throw", Undefined, Undefined)
                 ELSE SubscribeBody(r.val, [endpoint |-> endpoint])} :
       \E w \in {IF b.kind = "ok"
                 THEN writeData(r.fs, Str(RoomKey), b.data, "none")
                 ELSE Thrown(r.fs)} :
        /\ fs' = IF b.kind = "ok" THEN w.fs ELSE r.fs
        /\ res' = Resp("subscribe", IF b.kind = "ok" /\ ~w.threw THEN 201 ELSE 500,
                       Undefined, Undefined, RoomKey, endpoint)
        /\ hist' = Append(hist, endpoint)
    /\ UNCHANGED <<server, clock, rejected, lastCall, spaced, deletes, lag,
                   imports>>

SubscribeInit ==
    /\ server = "subscriptions"
    /\ clock = StartTime
    /\ fs = NoFiles
    /\ res = Resp("start", 0, Undefined, Undefined, <<>>, <<>>)
    /\ rejected = 0
    /\ lastCall = 0
    /\ spaced = TRUE
    /\ hist = <<>>
    /\ deletes = 0
    /\ lag = 0
    /\ imports = 0

SubscribeNext ==
    \/ SubscribeRoom

SubscribeSpec == SubscribeInit /\ [][SubscribeNext]_vars

---------------------------------------------------------------------------
(* Properties                                                              *)

\* The documents on disk (not their backups or temporary files).
IsDocument(p) == p = DATA_FILE \/ p[Len(p)] = ".json"
Documents == {p \in DOMAIN fs : IsDocument(p)}

\* The document of the room a request with this access code selects.
DocPath(code) ==
    IF server = "single" THEN DATA_FILE ELSE getDataFile(Str(code)).path

\* The id of a log entry as a number.
IdNum(entry) == parseInt(entry.id).v

\* The step handles a POST /api/increment request.
IncrementStep == Len(hist') + rejected' = calls + 1

\* The step handles a DELETE /api/log/:id request that is answered 200.
DeleteStep == deletes' = deletes + 1

\* C1 (as stated): in every state reached from a fresh room by increments
\* and deletions, count equals the number of entries in the log.
C1_CountEqualsLogLength ==
    \A p \in Documents : CountOf(fs[p]) = Len(LogOf(fs[p]))

\* C1 (amended): count is never below the number of entries in the log, and
\* equals it whenever the log holds fewer than 20 entries and right after
\* every successful deletion.
C1_CountCoversLog ==
    \A p \in Documents :
        /\ CountOf(fs[p]) >= Len(LogOf(fs[p]))
        /\ Len(LogOf(fs[p])) < LOG_LIMIT => CountOf(fs[p]) = Len(LogOf(fs[p]))
        /\ (res.op = "delete" /\ res.status = 200 /\ p = DocPath(res.code))
              => CountOf(fs[p]) = Len(LogOf(fs[p]))

\* C1 witness: the 21st increment has cut the log, count is 21 and the log holds 20.
C1_Witness ==
    \E p \in Documents :
        CountOf(fs[p]) = LOG_LIMIT + 1 /\ Len(LogOf(fs[p])) = LOG_LIMIT

\* C2: n increment requests on a fresh room, each at least 20000 ms after the
\* previous one, all succeed; count is n and the log holds the min(n, 20)
\* newest entries, newest first.
C2_SpacedIncrementsAllCounted ==
    (spaced /\ deletes = 0 /\ calls > 0) =>
        /\ rejected = 0
        /\ \A i, j \in 1..Len(hist) : i < j => IdNum(hist[i]) > IdNum(hist[j])
        /\ \E p \in Documents :
            /\ CountOf(fs[p]) = calls
            /\ LogOf(fs[p]) =
                 SubSeq(hist, 1, IF calls < LOG_LIMIT THEN calls ELSE LOG_LIMIT)

\* C3: an increment requested less than 20000 ms after lastIncrementTime is
\* answered 429 with remainingTime = ceil((20000 - elapsed) / 1000), and no
\* file changes.
C3_RateLimitedLeavesState ==
    [][ IncrementStep =>
          LET p == DocPath(res'.code)
              last == IF existsSync(fs, p) THEN LastOf(fs[p]) ELSE 0
              wait == RATE_LIMIT_MS - (clock - last)
          IN  clock - last < RATE_LIMIT_MS =>
                /\ res'.status = 429
                /\ res'.remainingTime.t = "number"
                /\ 1000 * res'.remainingTime.v >= wait
                /\ 1000 * (res'.remainingTime.v - 1) < wait
                /\ fs' = fs
                /\ hist' = hist ]_vars

\* C3 witness: an increment 19999 ms after the last one was told to wait 1 second.
C3_Witness ==
    /\ res.op = "increment"
    /\ res.status = 429
    /\ res.remainingTime = Num(1)
    /\ clock - LastOf(fs[DocPath(res.code)]) = RATE_LIMIT_MS - 1

\* The routes that read or write a room's document.
ApiOps ==
    {"counter", "button-state", "increment", "delete", "export", "import",
     "subscribe"}

\* C4: every API request that carries a valid access code is served from the
\* document of the room its access code selects: it is not answered with a
\* server error, and when it is served the room's document exists.
C4_RequestsUseTheirRoom ==
    (server = "rooms" /\ res.op \in ApiOps /\ ValidCode(res.code)) =>
        /\ res.status # 500
        /\ res.status \in {200, 201, 404, 429}
              => existsSync(fs, getDataFile(Str(res.code)).path)

\* C6: the log of every document holds at most 20 entries.
C6_LogAtMostTwenty ==
    \A p \in Documents : Len(LogOf(fs[p])) <= LOG_LIMIT

\* C6 witness: more than 20 entries were created and the log holds 20.
C6_Witness ==
    /\ Len(hist) > LOG_LIMIT
    /\ \E p \in Documents : Len(LogOf(fs[p])) = LOG_LIMIT

\* C7: a successful increment on a log of 20 entries leaves 20: the new entry
\* first, then the 19 newest of before in their order; the oldest is dropped.
C7_TwentyFirstDropsOldest ==
    [][ (IncrementStep /\ res'.status = 200) =>
          LET p == DocPath(res'.code)
              old == LogOf(fs[p])
              new == LogOf(fs'[p])
          IN  Len(old) = LOG_LIMIT =>
                /\ Len(new) = LOG_LIMIT
                /\ new[1] = hist'[1]
                /\ IdNum(new[1]) \in clock..clock'
                /\ \A i \in 1..Len(old) : old[i].id # new[1].id
                /\ SubSeq(new, 2, LOG_LIMIT) = SubSeq(old, 1, LOG_LIMIT - 1) ]_vars

\* C7 witness: the 21st entry was created, the log holds 20 and its last
\* entry is the second one ever created.
C7_Witness ==
    /\ res.op = "increment" /\ res.status = 200
    /\ Len(hist) = LOG_LIMIT + 1
    /\ Len(LogOf(res.body)) = LOG_LIMIT
    /\ LogOf(res.body)[LOG_LIMIT] = hist[LOG_LIMIT]

\* C8: the ids of the log strictly decrease from its head to its tail.
C8_LogNewestFirst ==
    \A p \in Documents :
        \A i, j \in 1..Len(LogOf(fs[p])) :
            i < j => IdNum(LogOf(fs[p])[i]) > IdNum(LogOf(fs[p])[j])

\* C8 witness: an increment after a deletion, on a log of at least 3 entries.
C8_Witness ==
    /\ deletes > 0
    /\ res.op = "increment" /\ res.status = 200
    /\ Len(LogOf(res.body)) >= 3

\* C9: lastIncrementTime is the numeric id of the newest entry of the log,
\* and 0 when the log is empty.
C9_LastIsNewestId ==
    \A p \in Documents :
        LastOf(fs[p]) =
            IF LogOf(fs[p]) = <<>> THEN 0 ELSE IdNum(LogOf(fs[p])[1])

\* What a client of a room observes at an instant: the document its requests
\* are served from and the state of its button.
Observed(f, code, now) ==
    LET r == readData(f, Str(code), "none")
    IN  [count |-> Get(r.val, "count"),
         log |-> Get(r.val, "log"),
         lastIncrementTime |-> Get(r.val, "lastIncrementTime"),
         button |-> ButtonStateBody(r.val, now)]

\* The files of a room: its document, the backup and the temporary file.
RoomFiles(f, code) ==
    LET dataFile == getDataFile(Str(code)).path
    IN  [p \in {dataFile, dataFile \o <<".tmp">>, dataFile \o <<".backup">>}
                \cap DOMAIN f |-> f[p]]

\* C5: for distinct access codes A and B, an operation on room A changes
\* neither the files of room B nor the count, log, lastIncrementTime and
\* rate-limit outcome a client of room B observes.
C5_RoomsAreIsolated ==
    [][ \A B \in StoreCodes :
          B # res'.code =>
            /\ RoomFiles(fs', B) = RoomFiles(fs, B)
            /\ Observed(fs', B, clock') = Observed(fs, B, clock') ]_vars

\* C5 witness: room A was just written while another room holds a document
\* with a different count and a different lastIncrementTime.
C5_Witness ==
    /\ res.op = "write" /\ res.status = 200
    /\ \E B \in StoreCodes :
        /\ B # res.code
        /\ existsSync(fs, getDataFile(Str(B)).path)
        /\ existsSync(fs, getDataFile(Str(res.code)).path)
        /\ CountOf(fs[getDataFile(Str(B)).path])
              # CountOf(fs[getDataFile(Str(res.code)).path])
        /\ LastOf(fs[getDataFile(Str(B)).path])
              # LastOf(fs[getDataFile(Str(res.code)).path])
        /\ LastOf(fs[getDataFile(Str(B)).path]) > 0

\* C10: after a successful deletion the first entry with the id is gone and
\* the others keep their order, count is the length of the log that remains,
\* and lastIncrementTime is the largest id that remains, wherever it sits
\* (0 if none); deleting the newest of 3 lowers lastIncrementTime to the id
\* of the second newest.
C10_DeleteRecomputes ==
    [][ DeleteStep =>
          LET p == DocPath(res'.code)
              old == LogOf(fs[p])
              new == LogOf(fs'[p])
              Newest(log, i) == \A k \in 1..Len(log) : IdNum(log[k]) <= IdNum(log[i])
          IN  /\ \E i \in 1..Len(old) :
                    /\ old[i].id = res'.id
                    /\ \A k \in 1..(i - 1) : old[k].id # res'.id /\ new[k] = old[k]
                    /\ Len(new) = Len(old) - 1
                    /\ \A k \in i..Len(new) : new[k] = old[k + 1]
              /\ CountOf(fs'[p]) = Len(new)
              /\ IF new = <<>> THEN LastOf(fs'[p]) = 0
                 ELSE \E i \in 1..Len(new) :
                        Newest(new, i) /\ LastOf(fs'[p]) = IdNum(new[i])
              /\ \A i, j \in 1..Len(old) :
                    (/\ Len(old) = 3 /\ i # j /\ old[i].id = res'.id
                     /\ Newest(old, i)
                     /\ \A k \in 1..3 : k # i => IdNum(old[k]) <= IdNum(old[j]))
                        => /\ LastOf(fs'[p]) = IdNum(old[j])
                           /\ LastOf(fs'[p]) < IdNum(old[i]) ]_vars

\* C10 witness: the newest of 3 entries was deleted and the newest that
\* remains is not the first of the log.
C10_Witness ==
    /\ res.op = "delete" /\ res.status = 200
    /\ Len(LogOf(res.body)) = 2
    /\ IdNum(LogOf(res.body)[1]) < IdNum(LogOf(res.body)[2])
    /\ LastOf(res.body) = IdNum(LogOf(res.body)[2])
    /\ parseInt(res.id).v > LastOf(res.body)

\* The step handles a DELETE /api/log/:id request.
DeleteRequestStep == res'.op = "delete" /\ res' # res

\* C11: a DELETE whose id matches no entry of the room's log is answered 404
\* and changes no file, so count, log and lastIncrementTime stay as they were.
C11_UnknownIdNotFound ==
    [][ DeleteRequestStep =>
          LET p == DocPath(res'.code)
              log == IF existsSync(fs, p) THEN LogOf(fs[p]) ELSE <<>>
          IN  (\A i \in 1..Len(log) : log[i].id # res'.id) =>
                /\ res'.status = 404
                /\ fs' = fs ]_vars

\* A value writeData refuses: null, undefined, or no object.
Invalid(x) == x.t \notin {"object", "array"}

\* C12: whatever the point at which a write fails or the process dies, the
\* canonical document afterwards is the whole previous document (or still
\* missing) or the whole new one, never one cut short.
C12_CanonicalOldOrNew ==
    [][ res'.op \in {"persist", "crash"} =>
          /\ existsSync(fs', DataFile) =>
                \/ existsSync(fs, DataFile) /\ fs'[DataFile] = fs[DataFile]
                \/ ~Invalid(res'.arg) /\ fs'[DataFile] = JSONstringify(res'.arg)
          /\ ~existsSync(fs', DataFile) => ~existsSync(fs, DataFile) ]_vars

\* C12 witness: the process died while writing the temporary file, which is
\* cut short, and the canonical document is the previous one, whole.
C12_Witness ==
    /\ res.op = "crash" /\ res.fault = "writing"
    /\ existsSync(fs, TempFile) /\ fs[TempFile] = Corrupt
    /\ existsSync(fs, DataFile) /\ fs[DataFile] = GoodDoc
    /\ existsSync(fs, BackupFile) /\ fs[BackupFile] = GoodDoc

\* The write fails at validation, at the backup copy, at the temporary
\* write or at the rename.
FailsAtStep ==
    \/ Invalid(res'.arg)
    \/ res'.fault \in {"write", "rename"}
    \/ res'.fault = "copy" /\ existsSync(fs, DataFile)

IsRoomState(x) ==
    /\ x.t = "object"
    /\ Get(x, "count").t = "number"
    /\ Get(x, "log").t = "array"
    /\ Get(x, "lastIncrementTime").t = "number"
    /\ server = "rooms" =>
          /\ Get(x, "accessCode").t = "string"
          /\ Get(x, "pushSubscriptions").t = "array"

\* count 0, an empty log, lastIncrementTime 0.
IsFresh(x) ==
    /\ x.t = "object"
    /\ Get(x, "count") = Num(0)
    /\ Get(x, "log") = Arr(<<>>)
    /\ Get(x, "lastIncrementTime") = Num(0)

\* The canonical document exists and reading or parsing it fails.
ReadFails == existsSync(fs, DataFile) /\ (res'.fault = "read" \/ fs[DataFile] = Corrupt)

\* A backup exists and is JSON.
BackupParses == existsSync(fs, BackupFile) /\ fs[BackupFile] # Corrupt

\* The values JSON.parse may return that an if takes as false.
FalsyJSON == {Null, Num(0), Str(<<>>), Bool(FALSE)}

\* C14: a Load right after a successful Persist of a RoomState returns that
\* state, field for field.
C14_PersistLoadRoundTrip ==
    [][ (/\ res.op = "persist" /\ ~res.threw /\ IsRoomState(res.arg)
         /\ res'.op = "load" /\ res'.fault # "read") =>
            /\ ~res'.threw
            /\ res'.val = res.arg ]_vars

\* C14 witness: the state of three log entries, which only a Persist puts on
\* the disk, was loaded.
C14_Witness ==
    /\ res.op = "load" /\ ~res.threw /\ res.fault = "none"
    /\ IsRoomState(res.val)
    /\ Len(LogOf(res.val)) = 3
    /\ fs[DataFile] = JSONstringify(res.val)

\* C15 (as stated): when the canonical document cannot be read or parsed and
\* a backup that parses exists, Load returns the contents of the backup.
C15_LoadReturnsBackup ==
    [][ (res'.op = "load" /\ ReadFails /\ BackupParses) =>
          /\ ~res'.threw
          /\ res'.val = JSONparse(fs[BackupFile]) ]_vars

\* C15 (amended): when the canonical document cannot be read or parsed and
\* a backup exists that parses to a value other than null, 0, false and "",
\* Load returns the parsed backup as it is and writes nothing.
C15_LoadReturnsTruthyBackup ==
    [][ (/\ res'.op = "load" /\ ReadFails /\ BackupParses
         /\ fs[BackupFile] \notin FalsyJSON) =>
          /\ ~res'.threw
          /\ res'.val = JSONparse(fs[BackupFile])
          /\ fs' = fs ]_vars

\* C15 witness: the canonical document is no JSON and Load returned the
\* backup, whose count is a string, as it is.
C15_Witness ==
    /\ res.op = "load" /\ ~res.threw
    /\ existsSync(fs, DataFile) /\ fs[DataFile] = Corrupt
    /\ existsSync(fs, BackupFile) /\ fs[BackupFile] = WrongTypedDoc
    /\ res.val = WrongTypedDoc

\* Load returned a fresh state and wrote it to the canonical document.
FreshPersisted ==
    /\ ~res'.threw
    /\ fs' # fs
    /\ IsFresh(res'.val)
    /\ existsSync(fs', DataFile)
    /\ fs'[DataFile] = JSONstringify(res'.val)

\* C16 (as stated): when reading or parsing the canonical document fails (and
\* the disk takes writes), Load returns the backup if it exists and parses,
\* and initializes a fresh persisted state only when the backup is missing
\* or does not parse.
C16_FreshOnlyWithoutBackup ==
    [][ (res'.op = "load" /\ ReadFails /\ res'.fault \in {"none", "read"}) =>
          /\ FreshPersisted <=> ~BackupParses
          /\ BackupParses => res'.val = JSONparse(fs[BackupFile]) ]_vars

\* C16 (amended): when reading or parsing the canonical document fails (and
\* the disk takes writes), Load returns the backup if it exists and parses
\* to a value other than null, 0, false and "", and initializes a fresh
\* persisted state exactly when the backup is missing, does not parse or
\* parses to one of these values.
C16_FreshOnlyWithoutTruthyBackup ==
    [][ (res'.op = "load" /\ ReadFails /\ res'.fault \in {"none", "read"}) =>
          LET usable == BackupParses /\ fs[BackupFile] \notin FalsyJSON
          IN  /\ FreshPersisted <=> ~usable
              /\ usable => res'.val = JSONparse(fs[BackupFile]) /\ fs' = fs ]_vars

\* C16 witness: neither the canonical document nor the backup was JSON; the
\* canonical document now holds the fresh state Load returned, and the
\* backup the text that was no JSON.
C16_Witness ==
    /\ res.op = "load" /\ ~res.threw /\ res.fault = "none"
    /\ IsFresh(res.val)
    /\ existsSync(fs, DataFile) /\ fs[DataFile] = JSONstringify(res.val)
    /\ existsSync(fs, BackupFile) /\ fs[BackupFile] = Corrupt

\* C17 (as stated): whatever the canonical document and the backup hold,
\* Load returns a RoomState and does not throw.
C17_LoadNeverThrows ==
    [][ res'.op = "load" => ~res'.threw /\ IsRoomState(res'.val) ]_vars

\* C17 (amended): Load throws only when the write of a fresh document fails;
\* the value it returns is a RoomState unless it is the backup, which is
\* returned as parsed; and it throws or returns the backup only when the
\* canonical document is missing, is no object or cannot be read or parsed.
C17_LoadThrowsOnlyOnWrite ==
    [][ res'.op = "load" =>
          /\ res'.threw => res'.fault \in {"copy", "write", "rename"}
          /\ ~res'.threw =>
                \/ IsRoomState(res'.val)
                \/ /\ existsSync(fs', BackupFile)
                   /\ fs'[BackupFile] # Corrupt
                   /\ res'.val = JSONparse(fs'[BackupFile])
          /\ (res'.threw \/ ~IsRoomState(res'.val)) =>
                \/ ~existsSync(fs, DataFile)
                \/ Invalid(fs[DataFile])
                \/ ReadFails ]_vars

\* C17 witness: the canonical document is no JSON, the backup holds 5, and
\* Load returned 5.
C17_Witness ==
    /\ res.op = "load" /\ ~res.threw
    /\ existsSync(fs, DataFile) /\ fs[DataFile] = Corrupt
    /\ res.val = Num(5)

\* C18: Load of a document that is an object replaces a count that is no
\* number by 0, a log that is no array by [] and a lastIncrementTime that is
\* no number by 0, and returns every other field of the document as it is.
C18_LoadCoercesFieldByField ==
    [][ (/\ res'.op = "load" /\ res'.fault # "read"
         /\ existsSync(fs, DataFile) /\ fs[DataFile].t = "object") =>
          LET doc == fs[DataFile]
              val == res'.val
          IN  /\ ~res'.threw
              /\ Get(val, "count") =
                    IF Get(doc, "count").t = "number" THEN Get(doc, "count")
                    ELSE Num(0)
              /\ Get(val, "log") =
                    IF Get(doc, "log").t = "array" THEN Get(doc, "log")
                    ELSE Arr(<<>>)
              /\ Get(val, "lastIncrementTime") =
                    IF Get(doc, "lastIncrementTime").t = "number"
                    THEN Get(doc, "lastIncrementTime") ELSE Num(0)
              /\ \A k \in DOMAIN doc.v \ {"count", "log", "lastIncrementTime"} :
                    Get(val, k) = doc.v[k] ]_vars

\* C18 witness: { count: "5", log: null, note: "n" } was loaded as count 0,
\* log [], lastIncrementTime 0 and note "n".
C18_Witness ==
    /\ res.op = "load" /\ ~res.threw /\ res.fault = "none"
    /\ existsSync(fs, DataFile) /\ fs[DataFile] = WrongTypedDoc
    /\ IsFresh(res.val)
    /\ Get(res.val, "note") = Str(<<"n">>)

\* C19: Load of a room with no canonical document (on a disk that takes
\* writes) returns a fresh state and persists it: the canonical document
\* exists afterwards and the next Load returns the same state.
C19_LoadCreatesFreshDocument ==
    [][ (/\ res'.op = "load" /\ res'.fault \in {"none", "read"}
         /\ ~existsSync(fs, DataFile)) =>
          /\ FreshPersisted
          /\ \A fault \in {"none", "copy", "write", "rename"} :
                /\ ~Load(fs', fault).threw
                /\ Load(fs', fault).val = res'.val
                /\ Load(fs', fault).fs = fs' ]_vars

\* C19 witness: Load created the canonical document, which had no
\* predecessor to back up, with a fresh state.
C19_Witness ==
    /\ res.op = "load" /\ ~res.threw /\ res.fault = "none"
    /\ IsFresh(res.val)
    /\ existsSync(fs, DataFile) /\ fs[DataFile] = JSONstringify(res.val)
    /\ ~existsSync(fs, BackupFile)
    /\ ~existsSync(fs, TempFile)

C21_BackupHoldsPrevious ==
    [][existsSync(fs, DataFile) =>
        /\ res'.op = "persist" /\ ~res'.threw =>
              existsSync(fs', BackupFile) /\ fs'[BackupFile] = fs[DataFile]
        /\ res'.op = "persist" /\ res'.threw
              /\ res'.fault \in {"write", "rename"}
              /\ ~Falsy(res'.arg) /\ typeOf(res'.arg) = "object" =>
              existsSync(fs', BackupFile) /\ fs'[BackupFile] = fs[DataFile]
        /\ res'.op = "crash"
              /\ res'.fault \in {"copied", "writing", "written", "renamed"} =>
              existsSync(fs', BackupFile) /\ fs'[BackupFile] = fs[DataFile]]_vars

\* A second Persist succeeded: the document holds the new state and the
\* backup the state the Persist before it had written.
C21_Witness ==
    /\ res.op = "persist" /\ ~res.threw
    /\ existsSync(fs, DataFile) /\ existsSync(fs, BackupFile)
    /\ fs[DataFile] = JSONstringify(res.arg)
    /\ \E d \in PersistInputs :
        /\ ~Falsy(d) /\ typeOf(d) = "object"
        /\ JSONstringify(d) # JSONstringify(res.arg)
        /\ fs[BackupFile] = JSONstringify(d)

C23_ButtonStateValues ==
    [][ LET \* The answer val of a request read at instant now is the button
            \* state of a room whose stored lastIncrementTime is the number last.
            IsButtonState(val, now, last) ==
                LET elapsed == now - last
                    enabled == elapsed >= RATE_LIMIT_MS
                IN  /\ Get(val, "isEnabled") = Bool(enabled)
                    /\ Get(val, "remainingTime") =
                          IF enabled THEN Num(0)
                          ELSE Num((RATE_LIMIT_MS - elapsed + 999) \div 1000)
                    /\ Get(val, "lastIncrementTime") = Num(last)
            \* The lastIncrementTime the canonical document stores, as Load reads it.
            StoredLast(f) ==
                Get(EnsureFields(JSONparse(f[DataFile])), "lastIncrementTime")
            IN  res'.op = "button" =>
                  /\ ~res'.threw
                  /\ (existsSync(fs', DataFile) /\ ~ParseThrows(fs'[DataFile])) =>
                        IsButtonState(res'.val, res'.arg.v, StoredLast(fs').v) ]_vars

\* Load takes the canonical document as it is: it parses to an object.
CanonicalIsObject(f) ==
    /\ existsSync(f, DataFile) /\ ~ParseThrows(f[DataFile])
    /\ ~Falsy(JSONparse(f[DataFile]))
    /\ typeOf(JSONparse(f[DataFile])) = "object"

\* Load falls back to the backup: the canonical document is no JSON and the
\* backup parses to a value an if takes as true.
BackupTaken(f) ==
    /\ existsSync(f, DataFile) /\ ParseThrows(f[DataFile])
    /\ existsSync(f, BackupFile) /\ ~ParseThrows(f[BackupFile])
    /\ ~Falsy(JSONparse(f[BackupFile]))

\* The files after Load has initialised the room from the files f: the fresh
\* document is the canonical one, the document there was is the backup, no
\* temporary file is left.
Initialised(f, g) ==
    /\ existsSync(g, DataFile)
    /\ g[DataFile] = JSONstringify(IF server = "single" THEN initialDataSingle
                                   ELSE initialData(Str(RoomKey)))
    /\ ~existsSync(g, TempFile)
    /\ existsSync(g, BackupFile) = (existsSync(f, DataFile) \/ existsSync(f, BackupFile))
    /\ existsSync(g, BackupFile) =>
          g[BackupFile] = IF existsSync(f, DataFile) THEN f[DataFile]
                          ELSE f[BackupFile]

\* C24 (as stated): a button-state request changes no file, whatever the
\* room's files hold.
C24_ButtonStateChangesNoFile ==
    [][ res'.op = "button" => fs' = fs ]_vars

\* C24 (amended): a button-state request changes no file when the canonical
\* document parses to an object, or is no JSON while the backup parses to a
\* truthy value; otherwise the only change it makes is Load's initialisation
\* of the room.
C24_ButtonStateWritesOnlyToInitialise ==
    [][ res'.op = "button" =>
          IF CanonicalIsObject(fs) \/ BackupTaken(fs) THEN fs' = fs
          ELSE fs' = fs \/ Initialised(fs, fs') ]_vars

\* A button-state request was answered from a fresh state while the backup
\* holds the 5 that was the canonical document: the request initialised the
\* room.
C24_Witness ==
    /\ res.op = "button" /\ ~res.threw
    /\ Get(res.val, "lastIncrementTime") = Num(0)
    /\ Get(res.val, "isEnabled") = Bool(TRUE)
    /\ existsSync(fs, DataFile) /\ IsFresh(JSONparse(fs[DataFile]))
    /\ existsSync(fs, BackupFile) /\ fs[BackupFile] = Num(5)
    /\ ~existsSync(fs, TempFile)

\* C25: the resolver keeps every character of the access code that is a
\* letter, a digit, '_' or '-' and puts '_' in the place of every other, one
\* for one; resolving the key it returned returns that key unchanged.
C25_ResolverSanitisesOnce ==
    [][ /\ res'.op = "resolve" =>
            /\ ~res'.threw
            /\ Len(res'.val.v) = Len(res'.arg.v)
            /\ \A i \in 1..Len(res'.arg.v) :
                 res'.val.v[i] =
                    IF res'.arg.v[i] \in Letters \cup {"_", "-"}
                       \/ IsDigit(res'.arg.v[i])
                    THEN res'.arg.v[i] ELSE "_"
        /\ res'.op = "resolve again" =>
            /\ ~res'.threw
            /\ res'.val = res'.arg ]_vars

\* The key of "a-/" was resolved again: the dash is kept, the slash became
\* an underscore, and the key "a-_" came back as it was.
C25_Witness ==
    /\ res.op = "resolve again"
    /\ res.arg = Str(<<"a", "-", "_">>)
    /\ res.val = Str(<<"a", "-", "_">>)

C27_ImportPersistsCoerced ==
    [][ (res'.op = "import" /\ res' # res) =>
          \/ /\ res'.status = 400
             /\ fs' = fs
          \/ /\ res'.status = 200
             /\ existsSync(fs', DocPath(res'.code))
             /\ \E payload \in Payloads \cup {UnorderedDoc} :
                 /\ ImportBody(JSONparse(payload)).kind = "ok"
                 /\ EnsureFields(JSONparse(fs'[DocPath(res'.code)]))
                      = EnsureFields(JSONparse(payload)) ]_vars

\* The endpoints in the order of their latest request, each once.
RECURSIVE LatestOnce(_)
LatestOnce(h) ==
    IF h = <<>> THEN <<>>
    ELSE LET rest == LatestOnce(SubSeq(h, 1, Len(h) - 1))
             last == h[Len(h)]
         IN  SelectSeq(rest, LAMBDA e : e # last) \o <<last>>

C29_HeadIdIsLastIncrementTime ==
    [][ (IncrementStep /\ res'.status = 200) =>
          \A p \in {DocPath(res'.code)} :
            /\ existsSync(fs', p)
            /\ LogOf(fs'[p]) # <<>>
            /\ IdNum(Head(LogOf(fs'[p]))) = LastOf(fs'[p])
            /\ Head(LogOf(fs'[p])).count = Get(fs'[p], "count") ]_vars

\* C30: the rate limit lifts. When every increment so far was accepted, the
\* last of them at the instant lastCall, an increment requested 20000 ms or
\* more after that instant is accepted, whatever else was done to the room
\* in between.
C30_RateLimitLifts ==
    [][ (/\ IncrementStep
         /\ spaced /\ calls > 0 /\ rejected = 0
         /\ clock - lastCall >= RATE_LIMIT_MS) =>
            res'.status = 200 ]_vars

\* C31: on every state Load returns and at every instant, the button state
\* reports enabled exactly when an increment would be accepted, and when it
\* reports disabled the increment would be rate-limited with the same
\* remaining seconds.
C31_ButtonAgreesWithIncrement ==
    (res.op = "load" /\ ~res.threw) =>
        \A now \in Instants :
            LET b == ButtonStateBody(res.val, now)
                \* The answer an increment request would get at that instant.
                i == IncrementBody(res.val, now, toLocaleString(now),
                                   toString(now),
                                   IF server = "single" THEN Undefined
                                   ELSE Str(<<"E", "d">>))
            IN  /\ Get(b, "isEnabled") = Bool(i.kind = "ok")
                /\ Get(b, "isEnabled") = Bool(FALSE) =>
                     /\ i.kind = "limited"
                     /\ i.remainingTime = Get(b, "remainingTime")

\* C35: every value Load returns, from the document, from a fresh
\* initialisation or from the backup, is an object whose count is a number,
\* whose log is an array and whose lastIncrementTime is a number.
C35_LoadReturnsTypedState ==
    (res.op = "load" /\ ~res.threw) =>
        /\ res.val.t = "object"
        /\ typeOf(Get(res.val, "count")) = "number"
        /\ IsArray(Get(res.val, "log"))
        /\ typeOf(Get(res.val, "lastIncrementTime")) = "number"

\* C32: in a room reached from a fresh state by increments and deletions,
\* the remaining seconds of a rate-limited increment and of a disabled
\* button state is an integer from 1 to 20.
C32_RemainingSecondsInRange ==
    (\/ res.op = "increment" /\ res.status = 429
     \/ /\ res.op = "button-state" /\ res.status = 200
        /\ Get(res.body, "isEnabled") = Bool(FALSE)) =>
        /\ res.remainingTime.t = "number"
        /\ res.remainingTime.v \in 1..20

\* The button state was asked for after a deletion, 19999 ms after the
\* newest entry that remains: disabled, 1 second to go.
C32_Witness ==
    /\ res.op = "button-state" /\ res.status = 200
    /\ deletes > 0
    /\ Get(res.body, "isEnabled") = Bool(FALSE)
    /\ res.remainingTime = Num(1)
    /\ clock - LastOf(Doc) = RATE_LIMIT_MS - 1

\* C33: when the request before an increment deleted the newest entry, the
\* increment is accepted, also less than 20000 ms after the deleted
\* increment, whenever the newest entry that remains is at least 20000 ms
\* old (an empty log counts as time 0).
C33_DeletingNewestShortensCooldown ==
    [][ (/\ IncrementStep
         /\ res.op = "delete" /\ res.status = 200
         /\ hist # <<>> /\ res.id = Head(hist).id
         /\ existsSync(fs, DocPath(res.code))
         /\ clock - (IF LogOf(fs[DocPath(res.code)]) = <<>> THEN 0
                     ELSE IdNum(Head(LogOf(fs[DocPath(res.code)]))))
              >= RATE_LIMIT_MS) =>
            res'.status = 200 ]_vars

\* The second of two increments was deleted and a third was accepted less
\* than 20000 ms after the second: the log holds the third and the first.
C33_Witness ==
    /\ res.op = "increment" /\ res.status = 200
    /\ deletes = 1
    /\ Len(hist) = 3
    /\ \E p \in Documents : LogOf(fs[p]) = <<hist[1], hist[3]>>
    /\ IdNum(hist[1]) - IdNum(hist[2]) < RATE_LIMIT_MS
    /\ IdNum(hist[1]) - IdNum(hist[3]) >= RATE_LIMIT_MS

\* C34: starting with a canonical document that does not parse and a valid
\* backup, every step of Load or Persist, and a crash at any point of a
\* Persist, leaves at least one of the two a parseable document.
C34_OneDocumentStaysParseable ==
    [][ LET \* The file holds a document Load takes: it parses to an object.
            Usable(f, p) ==
                /\ existsSync(f, p) /\ ~ParseThrows(f[p])
                /\ ~Falsy(JSONparse(f[p]))
                /\ JSONparse(f[p]).t = "object"
            \* The file holds a valid state: count is a number, log an array and
            \* lastIncrementTime a number.
            ValidState(f, p) ==
                /\ Usable(f, p)
                /\ typeOf(Get(JSONparse(f[p]), "count")) = "number"
                /\ IsArray(Get(JSONparse(f[p]), "log"))
                /\ typeOf(Get(JSONparse(f[p]), "lastIncrementTime")) = "number"
            IN  (/\ existsSync(fs, DataFile) /\ ParseThrows(fs[DataFile])
                 /\ ValidState(fs, BackupFile)) =>
                    (Usable(fs', DataFile) \/ Usable(fs', BackupFile)) ]_vars

\* C36: in every state reached from a fresh room by increments and
\* deletions, the numeric ids of any two entries adjacent in the log differ
\* by at least 20000.
C36_AdjacentIdsSpaced ==
    \A p \in Documents :
        \A i \in 1..(Len(LogOf(fs[p])) - 1) :
            IdNum(LogOf(fs[p])[i]) - IdNum(LogOf(fs[p])[i + 1]) >= RATE_LIMIT_MS

\* C37 (as stated): in every state reached from a fresh room by increments
\* and deletions, no two entries of the log carry the same count value and
\* the head entry's count value is the room's count.
C37_CountsDistinctHeadIsCount ==
    \A p \in Documents :
        /\ \A i, j \in 1..Len(LogOf(fs[p])) :
              i # j => LogOf(fs[p])[i].count # LogOf(fs[p])[j].count
        /\ LogOf(fs[p]) # <<>> =>
              Head(LogOf(fs[p])).count = Get(fs[p], "count")

\* C37 (amended): as long as no entry was deleted, no two entries of the log
\* carry the same count value and the head entry's count value is the
\* room's count. A deletion sets count to the length of the log, below the
\* count the head entry carries, and later increments repeat count values.
C37_CountsDistinctUntilDeleted ==
    deletes = 0 =>
        \A p \in Documents :
            /\ \A i, j \in 1..Len(LogOf(fs[p])) :
                  i # j => LogOf(fs[p])[i].count # LogOf(fs[p])[j].count
            /\ LogOf(fs[p]) # <<>> =>
                  Head(LogOf(fs[p])).count = Get(fs[p], "count")

\* Three increments were accepted and nothing was deleted: the log holds
\* three entries and its head carries the count 3.
C37_Witness ==
    /\ deletes = 0
    /\ res.op = "increment" /\ res.status = 200
    /\ \E p \in Documents :
        /\ Len(LogOf(fs[p])) = 3
        /\ Head(LogOf(fs[p])).count = Num(3)
        /\ Get(fs[p], "count") = Num(3)

---------------------------------------------------------------------------
(* The cleanup of push subscriptions among the requests of one room        *)

\* The documents the requests of a room persist: data after an increment,
\* after a subscription, and after the deletion of an entry of the log.
Requested(data, now) ==
    Changed(data, now)
        \cup {b.data : b \in {o \in {DeleteBody(data, id) :
                                        id \in DeleteIds(LogOf(data))} :
                                o.kind = "ok"}}

\* A request on the room: readData(accessCode), a change,
\* writeData(accessCode, data).
RequestCleanup ==
    /\ server = "store"
    /\ \E fault \in Faults :
       \E r \in {readData(fs, Str(RoomKey), "none")} :
        /\ ~r.threw
        /\ \E data \in Requested(r.val, clock) :
           \E w \in {writeData(r.fs, Str(RoomKey), data, fault)} :
            /\ fs' = w.fs
            /\ res' = Resp("write", IF w.threw THEN 500 ELSE 200, Undefined,
                           Undefined, RoomKey, <<>>)
    /\ UNCHANGED <<server, clock, rejected, lastCall, spaced, hist, deletes, lag,
                   imports>>

\* A notification failed with 410 or 400:
\* removeInvalidSubscription(accessCode, subscription.endpoint)
RemoveCleanup ==
    /\ server = "store"
    /\ \E endpoint \in Endpoints, fault \in Faults :
       \E w \in {removeInvalidSubscription(fs, Str(RoomKey), endpoint, fault)} :
        /\ fs' = w.fs
        /\ res' = Resp("remove", IF w.threw THEN 500 ELSE 200, Undefined,
                       Undefined, RoomKey, <<>>)
    /\ UNCHANGED <<server, clock, rejected, lastCall, spaced, hist, deletes, lag,
                   imports>>

CleanupNext ==
    \/ RequestCleanup
    \/ RemoveCleanup
    \/ StoreTick

CleanupSpec == StoreInit /\ [][CleanupNext]_vars

\* C38: the cleanup of push subscriptions never rolls back counter state.
\* Whenever removeInvalidSubscription runs, after any increments, deletions
\* and subscriptions on the room, the document it persists has the count,
\* log and lastIncrementTime of the document persisted last and differs
\* from it only in pushSubscriptions; when its write fails the document
\* stays as it was.
C38_CleanupKeepsCounterState ==
    [][ LET \* The document d is the document e with one endpoint's subscriptions
            \* filtered out and every other field as it is in e.
            OnlySubscriptionsFiltered(d, e) ==
                /\ d.t = "object" /\ e.t = "object"
                /\ DOMAIN d.v = DOMAIN e.v
                /\ \A k \in DOMAIN d.v \ {"pushSubscriptions"} : d.v[k] = e.v[k]
                /\ \E endpoint \in Endpoints :
                      Get(d, "pushSubscriptions") =
                          Arr(WithoutEndpoint(Get(e, "pushSubscriptions").v, endpoint))
            IN  \A code \in StoreCodes :
                  (/\ res'.op = "remove" /\ res'.code = code
                   /\ existsSync(fs, DocPath(code))) =>
                    /\ existsSync(fs', DocPath(code))
                    /\ Get(fs'[DocPath(code)], "count") = Get(fs[DocPath(code)], "count")
                    /\ Get(fs'[DocPath(code)], "log") = Get(fs[DocPath(code)], "log")
                    /\ Get(fs'[DocPath(code)], "lastIncrementTime")
                          = Get(fs[DocPath(code)], "lastIncrementTime")
                    /\ IF res'.status = 200
                       THEN OnlySubscriptionsFiltered(fs'[DocPath(code)],
                                                      fs[DocPath(code)])
                       ELSE fs'[DocPath(code)] = fs[DocPath(code)] ]_vars

\* The cleanup removed the subscription of a room in which an increment was
\* persisted after the subscription: the document keeps the entry and the
\* count, and the document before the cleanup, now the backup, holds the
\* subscription.
C38_Witness ==
    /\ res.op = "remove" /\ res.status = 200
    /\ existsSync(fs, DocPath(res.code))
    /\ existsSync(fs, DocPath(res.code) \o <<".backup">>)
    /\ Get(fs[DocPath(res.code)], "count") = Num(1)
    /\ Len(LogOf(fs[DocPath(res.code)])) = 1
    /\ Get(fs[DocPath(res.code)], "pushSubscriptions") = Arr(<<>>)
    /\ Get(fs[DocPath(res.code) \o <<".backup">>], "pushSubscriptions").v # <<>>
    /\ Get(fs[DocPath(res.code) \o <<".backup">>], "count") = Num(1)

=============================================================================
